---- MODULE Spec2Model ----
(***************************************************************************)
(* pyCLIF wide-dataset utilities (src/src/pyclif/utils/wide_dataset.py):   *)
(*   create_wide_dataset    -- joins the CLIF tables on a minute key       *)
(*   convert_wide_to_hourly -- aggregates a wide table into hourly rows    *)
(*                                                                         *)
(* Data conventions of the model                                           *)
(*   - a timestamp is a number of seconds since midnight of day 0;         *)
(*   - a nullable cell is NULL (= <<>>) or Some(v) (= <<v>>); the value of  *)
(*     a data column is Num(n) (n.0), NumHalf(n) (n.5) or Str(text), so    *)
(*     that numbers and texts can be told apart as pandas dtypes are and   *)
(*     astype(int) has a fraction to drop;                                 *)
(*   - a table is a set of rows where pandas/DuckDB treat it as a bag      *)
(*     whose duplicates are removed (DISTINCT, drop_duplicates), and a     *)
(*     sequence of rows where row order is observable;                     *)
(*   - a text (column name, categorical value) of the hourly aggregator    *)
(*     is a sequence of one-character strings, so that concatenation,      *)
(*     prefix tests and re.sub are computed, not assumed.                  *)
(***************************************************************************)
EXTENDS Integers, Sequences, FiniteSets, TLC

VARIABLES
    \* ---- create_wide_dataset ----
    hospitalization,      \* clif_instance.hospitalization.df
    adt,                  \* clif_instance.adt.df
    vitals,               \* clif_instance.vitals.df
    respiratory_support,  \* clif_instance.respiratory_support.df
    loaded,               \* the tables clif_instance holds (the others are None)
    table_df_columns,     \* table_df.columns of every optional table
    running,              \* the create_wide_dataset calls in progress, step by step
    med_df,               \* clif.medication_admin_continuous.df
    converted_med_df,     \* outcome of convert_vasopressor_units
    duckdb_tables,        \* what is registered with the DuckDB connection
    wide_call,            \* arguments of the create_wide_dataset call
    final_df,             \* outcome of the call (status "none" before it)
    \* ---- convert_wide_to_hourly ----
    wide_df,              \* the wide table handed to convert_wide_to_hourly
    wide_df_columns,      \* wide_df.columns: the key columns and the data columns
    aggregation_config,   \* the caller's dict (mutated in place by the call)
    hourly_call,          \* the dict as it was passed to the call
    hourly_df,            \* outcome of the call (status "none" before it)
    printed               \* the columns of the "not found in wide_df" warnings printed

wide_vars == <<hospitalization, adt, vitals, respiratory_support, loaded,
               table_df_columns, running, med_df, converted_med_df, duckdb_tables,
               wide_call, final_df>>
hourly_vars == <<wide_df, wide_df_columns, aggregation_config, hourly_call, hourly_df,
                 printed>>
vars == <<hospitalization, adt, vitals, respiratory_support, loaded,
          table_df_columns, running, med_df, converted_med_df, duckdb_tables,
          wide_call, final_df, wide_df, wide_df_columns, aggregation_config, hourly_call,
          hourly_df, printed>>

----------------------------------------------------------------------------
(* Nullable cells *)

NULL == <<>>

Some(v) == <<v>>

\* the values of a data column: the whole number n, the number n + 0.5, a text
Num(n) == <<"num", n, 0>>

NumHalf(n) == <<"num", n, 1>>

Str(text) == <<"str", text>>

IsNull(cell) == cell = NULL

NotNull(cell) == cell # NULL

----------------------------------------------------------------------------
(* Time *)

SecondsPerMinute == 60

SecondsPerHour == 3600

SecondsPerDay == 86400

\* strftime(ts, '%Y%m%d%H%M'): the text names the minute of ts and nothing finer,
\* so it is represented by the index of that minute.
Strftime(ts) == ts \div SecondsPerMinute

\* Series.dt.date
DateOf(ts) == ts \div SecondsPerDay

\* mutant of ComboId: the key is formatted with '%Y%m%d' only
ComboIdByDate(hospitalization_id, ts) == <<hospitalization_id, DateOf(ts)>>

\* hospitalization_id || '_' || strftime(ts, '%Y%m%d%H%M'): the time part has a
\* fixed width, so the text determines both parts; it is the pair of them.
ComboId(hospitalization_id, ts) == <<hospitalization_id, Strftime(ts)>>

----------------------------------------------------------------------------
(* Bounds and input domains of create_wide_dataset *)

\* total number of rows loaded into adt, vitals and respiratory_support
MaxRows == 2

HospitalizationIds == {1, 2}

\* 00:00:00, 00:00:45 (same minute), 00:01:00 (next minute), next day 00:00:00
WideTimes == {0, 45, 60, 86400}

LocationCategories == {"icu", "ward"}

VitalCategories == {"heart_rate", "map"}

VitalValues == {NULL, Num(80), Num(120)}

\* a hospitalization table with the given ids, one patient per hospitalization
HospitalizationDf(ids) ==
    {[hospitalization_id |-> h, patient_id |-> h + 100,
      age_at_admission |-> "adult"] : h \in ids}

\* clif_instance.patient.df: the patients of the hospitalizations
patient ==
    {[patient_id |-> h.patient_id, sex_category |-> "female"] : h \in hospitalization}

\* the tables create_wide_dataset reads unconditionally, and the optional ones
BaseTables == {"patient", "hospitalization", "adt"}

OptionalTables == {"vitals", "respiratory_support"}

\* the columns of the optional tables as CLIF defines them
TableColumns ==
    [vitals |-> {"hospitalization_id", "recorded_dttm", "vital_category", "vital_value"},
     respiratory_support |-> {"hospitalization_id", "recorded_dttm", "fio2_set"}]

\* df.columns of a loaded table
DfColumns(table_name) ==
    CASE table_name = "patient" -> {"patient_id", "sex_category"}
      [] table_name = "hospitalization" ->
            {"hospitalization_id", "patient_id", "age_at_admission"}
      [] table_name = "adt" -> {"hospitalization_id", "in_dttm", "location_category"}
      [] OTHER -> table_df_columns[table_name]

\* no create_wide_dataset call is in progress
NoRunning == <<>>

\* no continuous-medication table is at hand
NoMedication == <<>>

\* convert_vasopressor_units was not called
\* no conversion was applied yet
NoConversion == [status |-> "none", target_unit |-> "", rows |-> <<>>, applications |-> 0]

AdtRows ==
    [hospitalization_id : HospitalizationIds, in_dttm : WideTimes,
     location_category : LocationCategories]

VitalsRows ==
    [hospitalization_id : HospitalizationIds, recorded_dttm : WideTimes,
     vital_category : VitalCategories, vital_value : VitalValues]

RespiratorySupportRows ==
    [hospitalization_id : HospitalizationIds, recorded_dttm : WideTimes,
     fio2_set : {Num(40)}]

OptionalTableChoices == SUBSET {"vitals", "respiratory_support"}

\* category_filters: None (NULL), or a dict with the single key 'vitals'
CategoryFilterChoices == {NULL} \cup {Some([vitals |-> {c}]) : c \in VitalCategories}

\* hospitalization_ids: None (NULL), or a list of ids
HospitalizationIdsChoices == {NULL, Some({1})}

\* the arguments of a call with sample=False and base_table_columns=None
WideCalls ==
    [optional_tables : OptionalTableChoices,
     category_filters : CategoryFilterChoices,
     sample : {FALSE},
     hospitalization_ids : HospitalizationIdsChoices,
     base_table_columns : {NULL}]

----------------------------------------------------------------------------
(* create_wide_dataset: cohort and event times *)

\* required_columns of _filter_base_table_columns
RequiredColumns(table_name) ==
    CASE table_name = "patient" -> {"patient_id"}
      [] table_name = "hospitalization" -> {"hospitalization_id", "patient_id"}
      [] table_name = "adt" -> {"hospitalization_id"}

\* variant: the required id columns are not added to the specified ones
FilterSpecifiedColumns(df_columns, table_name, base_table_columns) ==
    IF base_table_columns = NULL THEN df_columns
    ELSE IF table_name \notin DOMAIN base_table_columns[1] THEN df_columns
    ELSE LET available_columns == base_table_columns[1][table_name] \cap df_columns
         IN  IF available_columns # {} THEN available_columns ELSE df_columns

\* _filter_base_table_columns: the columns of the DataFrame it returns (the
\* rows are those of df)
FilterBaseTableColumns(df_columns, table_name, base_table_columns) ==
    IF base_table_columns = NULL THEN df_columns
    ELSE IF table_name \notin DOMAIN base_table_columns[1] THEN df_columns
    ELSE LET all_columns == RequiredColumns(table_name)
                               \cup base_table_columns[1][table_name]
             available_columns == all_columns \cap df_columns
         IN  IF available_columns # {} THEN available_columns ELSE df_columns

\* the part of a row that the columns of its DataFrame show
Project(row, columns) == [c \in columns \cap DOMAIN row |-> row[c]]

\* the number of hospitalizations sample=True draws at most
SampleSize == 20

\* the subsets of S with k elements
RECURSIVE KSubsets(_, _)
KSubsets(S, k) ==
    IF k = 0 THEN {{}}
    ELSE IF k > Cardinality(S) THEN {}
    ELSE IF 2 * k > Cardinality(S)
    THEN {S \ T : T \in KSubsets(S, Cardinality(S) - k)}
    ELSE UNION {{T \cup {x} : T \in KSubsets(S \ {x}, k - 1)} : x \in S}

\* hospitalization_df['hospitalization_id'].sample(n=min(20, len(hospitalization_df)))
SampleChoices(ids) ==
    KSubsets(ids, IF Cardinality(ids) < SampleSize THEN Cardinality(ids)
                  ELSE SampleSize)

\* variant: sample=True is ignored
FilterHospitalizationsUnsampled(hospitalization_ids, sample, sampled_ids) ==
    IF hospitalization_ids # NULL
    THEN {h \in hospitalization : h.hospitalization_id \in hospitalization_ids[1]}
    ELSE hospitalization

\* hospitalization_df after the cohort filter (explicit ids, a sample, or all)
FilterHospitalizations(hospitalization_ids, sample, sampled_ids) ==
    IF hospitalization_ids # NULL
    THEN {h \in hospitalization : h.hospitalization_id \in hospitalization_ids[1]}
    ELSE IF sample
    THEN {h \in hospitalization : h.hospitalization_id \in sampled_ids}
    ELSE hospitalization

\* required_ids = hospitalization_df['hospitalization_id'].unique()
RequiredIds(hospitalization_df) == {h.hospitalization_id : h \in hospitalization_df}

\* df[df['hospitalization_id'].isin(required_ids)]
FilterToCohort(table_df, required_ids) ==
    {r \in table_df : r.hospitalization_id \in required_ids}

\* pd.merge(hospitalization_df, patient_df, on='patient_id', how='inner')
BaseCohort(hospitalization_df) ==
    {h \in hospitalization_df : \E p \in patient : p.patient_id = h.patient_id}

\* clif_instance.<table>.df of an optional table
TableDf(table_name) ==
    IF table_name = "vitals" THEN vitals ELSE respiratory_support

\* the raw tables registered as '<table>_raw', one per selected optional table
\* that is loaded
RawTables(optional_tables, required_ids) ==
    [t \in optional_tables |-> FilterToCohort(TableDf(t), required_ids)]

\* the name a raw table is registered under
RawName(table_name) == table_name \o "_raw"

\* duckdb.register(name, df): the name is bound to df, whatever it was bound to
Register(tables, names, df) ==
    [n \in DOMAIN tables \cup names |-> IF n \in names THEN df[n] ELSE tables[n]]

\* SELECT DISTINCT hospitalization_id, in_dttm AS event_time FROM adt_df
AdtEventTimes(adt_df) == {<<r.hospitalization_id, r.in_dttm>> : r \in adt_df}

\* SELECT DISTINCT hospitalization_id, <timestamp_col> AS event_time FROM <table>_raw
TableEventTimes(table_raw) ==
    {<<r.hospitalization_id, r.recorded_dttm>> : r \in table_raw}

\* the UNION of the event-time queries
UniEventDttm(adt_df, raw) ==
    AdtEventTimes(adt_df) \cup UNION {TableEventTimes(raw[t]) : t \in DOMAIN raw}

\* expanded_df: base_cohort LEFT JOIN uni_event_dttm ON hospitalization_id;
\* a cohort row without any event keeps a NULL event_time and a NULL combo_id
ExpandedDf(base_cohort, uni_event_dttm) ==
    {[hospitalization_id |-> a.hospitalization_id, patient_id |-> a.patient_id,
      event_time |-> Some(b[2]),
      combo_id |-> Some(ComboId(a.hospitalization_id, b[2]))] :
        <<a, b>> \in {x \in base_cohort \X uni_event_dttm :
                        x[1].hospitalization_id = x[2][1]}}
    \cup
    {[hospitalization_id |-> a.hospitalization_id, patient_id |-> a.patient_id,
      event_time |-> NULL, combo_id |-> NULL] :
        a \in {x \in base_cohort :
                 \A b \in uni_event_dttm : b[1] # x.hospitalization_id}}

\* adt_with_combo: every adt row with its combo_id
AdtWithCombo(adt_df) ==
    {[row |-> r, combo_id |-> ComboId(r.hospitalization_id, r.in_dttm)] : r \in adt_df}

\* <table>_with_combo: every raw row with its combo_id
TableWithCombo(table_raw) ==
    {[row |-> r, combo_id |-> ComboId(r.hospitalization_id, r.recorded_dttm)] :
        r \in table_raw}

----------------------------------------------------------------------------
(* _pivot_table_duckdb *)

\* the categories kept by "AND <category_col> IN (...)", all of them without a filter
FilterClause(table_name, category_filters, category) ==
    IF category_filters # NULL /\ table_name \in DOMAIN category_filters[1]
    THEN category \in category_filters[1][table_name]
    ELSE TRUE

\* pivot_data: SELECT DISTINCT value, category, combo_id FROM <table>_raw WHERE ...
PivotData(table_name, table_raw, category_filters) ==
    {<<r.vital_value, r.vital_category,
       ComboId(r.hospitalization_id, r.recorded_dttm)>> :
        r \in {x \in table_raw :
                 FilterClause(table_name, category_filters, x.vital_category)}}

\* the (combo_id, category) cells that pivot_data fills
PivotKeys(pivot_data) == {<<d[3], d[2]>> : d \in pivot_data}

\* mutant of ValuesAt: the values of the combo_id under any category
ValuesAtAnyCategory(pivot_data, key) ==
    {d[1] : d \in {x \in pivot_data : x[3] = key[1]}}

\* the values pivot_data holds for one cell
ValuesAt(pivot_data, key) ==
    {d[1] : d \in {x \in pivot_data : x[3] = key[1] /\ x[2] = key[2]}}

\* the functions that give every cell of keys one of the values pivot_data holds
\* for it
RECURSIVE FirstChoicesOver(_, _)
FirstChoicesOver(keys, pivot_data) ==
    IF keys = {} THEN {<<>>}
    ELSE LET k == CHOOSE x \in keys : TRUE
         IN  {(k :> v) @@ f : v \in ValuesAt(pivot_data, k),
                              f \in FirstChoicesOver(keys \ {k}, pivot_data)}

\* first(value): pivot_data is the result of a DISTINCT and has no defined order,
\* so first() may return any of the cell's values, a NULL value included
PivotFirstChoices(pivot_data) == FirstChoicesOver(PivotKeys(pivot_data), pivot_data)

\* PIVOT pivot_data ON category USING first(value) GROUP BY combo_id
PivotTable(pivot_data, first) ==
    LET columns == {d[2] : d \in pivot_data}
    IN  [columns |-> columns,
         rows |-> {[combo_id |-> c,
                    values |-> [cat \in columns |->
                                  IF <<c, cat>> \in PivotKeys(pivot_data)
                                  THEN first[<<c, cat>>] ELSE NULL]] :
                      c \in {d[3] : d \in pivot_data}}]

\* whether the PIVOT statement can succeed: with no row left to pivot the engine
\* finds no pivot value, which it either rejects (the except branch returns None)
\* or answers with an empty table
PivotOutcomes(pivot_data) == IF pivot_data = {} THEN {TRUE, FALSE} ELSE {TRUE}

\* the sources that are pivoted
PivotableTables ==
    {"vitals", "labs", "medication_admin_continuous", "patient_assessments"}

----------------------------------------------------------------------------
(* create_wide_dataset: the join, day numbering, ghost columns *)

\* LEFT JOIN <t>_with_combo USING (combo_id): every matching row of t, or one
\* all-NULL row when none matches (a NULL combo_id matches nothing)
LeftJoinMatches(combo_id, with_combo) ==
    LET m == {x.row : x \in {y \in with_combo : combo_id = Some(y.combo_id)}}
    IN  IF m = {} THEN {NULL} ELSE {Some(r) : r \in m}

\* LEFT JOIN <table>_pivoted USING (combo_id): the category cells of the row
PivotedMatches(combo_id, pivoted) ==
    LET m == {x.values : x \in {y \in pivoted.rows : combo_id = Some(y.combo_id)}}
    IN  IF m = {} THEN {[cat \in pivoted.columns |-> NULL]} ELSE m

\* the optional tables joined unpivoted: selected, not pivoted, registered as raw
RawJoined(optional_tables, pivoted_tables) ==
    {t \in optional_tables : t \notin pivoted_tables}

\* join_query: expanded_df LEFT JOIN adt_with_combo, then every pivoted table,
\* then every table of RawJoined, all USING (combo_id); the adt columns of a
\* row are those adt_df has; drop_duplicates makes the result a set of rows
JoinQuery(expanded_df, adt_df, adt_columns, raw, pivoted_tables, pivoted) ==
    LET raw_joined == RawJoined(DOMAIN raw, pivoted_tables)
        RawMatches(t, combo_id) ==
            IF t \in raw_joined
            THEN LeftJoinMatches(combo_id, TableWithCombo(raw[t]))
            ELSE {NULL}
    IN  UNION {
          {[hospitalization_id |-> e.hospitalization_id,
            patient_id |-> e.patient_id,
            event_time |-> e.event_time,
            adt |-> IF x[1] = NULL THEN NULL
                    ELSE Some(Project(x[1][1], adt_columns)),
            pivoted |-> x[2], vitals_raw |-> x[3],
            respiratory_support |-> x[4]] :
              x \in LeftJoinMatches(e.combo_id, AdtWithCombo(adt_df))
                    \X (IF "vitals" \in pivoted_tables
                        THEN PivotedMatches(e.combo_id, pivoted)
                        ELSE {<<>>})
                    \X RawMatches("vitals", e.combo_id)
                    \X RawMatches("respiratory_support", e.combo_id)} :
          e \in expanded_df}

\* variant: the dense rank is taken over event_time, not over its date
DayNumberByEventTime(rows, r) ==
    Cardinality({x.event_time[1] :
                   x \in {y \in rows :
                            /\ y.hospitalization_id = r.hospitalization_id
                            /\ y.event_time[1] <= r.event_time[1]}})

\* groupby('hospitalization_id')['date'].rank(method='dense') of a row
DayNumber(rows, r) ==
    Cardinality({DateOf(x.event_time[1]) :
                   x \in {y \in rows :
                            /\ y.hospitalization_id = r.hospitalization_id
                            /\ DateOf(y.event_time[1]) <= DateOf(r.event_time[1])}})

\* _add_missing_columns: the categories added as all-NaN columns
MissingColumns(columns, category_filters, optional_tables) ==
    IF category_filters = NULL THEN {}
    ELSE UNION {category_filters[1][t] \ columns :
                  t \in DOMAIN category_filters[1] \cap optional_tables}

\* the outcome of a call that raised at the given place
WideRaised(raised_at) ==
    [status |-> "raised", raised_at |-> raised_at, required_ids |-> {},
     pivoted_tables |-> {}, columns |-> {}, rows |-> {}]

\* the optional tables the loop of lines 100-145 processes: selected and loaded
SelectedTables(call) == call.optional_tables \cap loaded

\* timestamp_col in table_df.columns: every optional table of the model has the
\* timestamp column recorded_dttm, and none has a fallback column
\* (recorded_dttm_min) when recorded_dttm is missing
HasTimestampColumn(columns) == "recorded_dttm" \in columns

\* the PIVOT statement finds the category and the value column it names
HasPivotColumns(columns) == {"vital_category", "vital_value"} \subseteq columns

\* duckdb_tables when the join query runs: the base tables and the raw tables of
\* this call are registered over whatever earlier calls left registered
RegisteredAtJoin(call, hospitalization_df, adt_df, raw) ==
    LET base == [n \in {"patient_df", "hospitalization_df", "adt_df", "base_cohort"} |->
                   CASE n = "patient_df" ->
                          [columns |-> FilterBaseTableColumns(DfColumns("patient"),
                                          "patient", call.base_table_columns),
                           rows |-> patient]
                     [] n = "hospitalization_df" ->
                          [columns |-> FilterBaseTableColumns(DfColumns("hospitalization"),
                                          "hospitalization", call.base_table_columns),
                           rows |-> hospitalization_df]
                     [] n = "adt_df" ->
                          [columns |-> FilterBaseTableColumns(DfColumns("adt"),
                                          "adt", call.base_table_columns),
                           rows |-> adt_df]
                     [] n = "base_cohort" ->
                          [columns |->
                             FilterBaseTableColumns(DfColumns("hospitalization"),
                                "hospitalization", call.base_table_columns)
                             \cup FilterBaseTableColumns(DfColumns("patient"),
                                     "patient", call.base_table_columns),
                           rows |-> BaseCohort(hospitalization_df)]]
        raws == [n \in {RawName(t) : t \in DOMAIN raw} |->
                   LET t == CHOOSE x \in DOMAIN raw : RawName(x) = n
                   IN  [columns |-> DfColumns(t), rows |-> raw[t]]]
    IN  Register(Register(duckdb_tables, DOMAIN base, base), DOMAIN raws, raws)

\* one run of create_wide_dataset up to its return or raise:
\*   final_df:   the DataFrame it returns, or the error it raises
\*   registered: duckdb_tables at that point, before any cleanup
\* with
\*   sampled_ids: the ids sample() drew
\*   pivot_ok:    the PIVOT statement of vitals succeeded
\*   first:       the value first() picked for every pivoted cell
WideBuild(call, sampled_ids, pivot_ok, first) ==
    IF ~(BaseTables \subseteq loaded)
    THEN \* clif_instance.<table> is None and has no attribute df
         [final_df |-> WideRaised("load"), registered |-> duckdb_tables]
    ELSE
    LET optional_tables == call.optional_tables
        category_filters == call.category_filters
        adt_columns == FilterBaseTableColumns(DfColumns("adt"), "adt",
                                              call.base_table_columns)
        hospitalization_df ==
            FilterHospitalizations(call.hospitalization_ids, call.sample, sampled_ids)
        required_ids == RequiredIds(hospitalization_df)
        adt_df == FilterToCohort(adt, required_ids)
        base_cohort == BaseCohort(hospitalization_df)
        selected == SelectedTables(call)
        raw == RawTables(selected, required_ids)
        adt_times == IF "in_dttm" \in adt_columns THEN adt_df ELSE {}
        pivot_data == IF "vitals" \in selected
                      THEN PivotData("vitals", raw["vitals"], category_filters)
                      ELSE {}
        timed == {t \in selected : HasTimestampColumn(DfColumns(t))}
        pivoted_tables == {t \in timed \cap PivotableTables :
                             HasPivotColumns(DfColumns(t)) /\ pivot_ok}
        pivoted == PivotTable(pivot_data, first)
        registered == RegisteredAtJoin(call, hospitalization_df, adt_df, raw)
        raw_at_join == [t \in {x \in optional_tables : RawName(x) \in DOMAIN registered}
                          |-> registered[RawName(t)].rows]
        expanded_df == ExpandedDf(base_cohort,
                          UniEventDttm(adt_times, [t \in timed |-> raw[t]]))
        joined == JoinQuery(expanded_df, adt_df, adt_columns, raw_at_join,
                            pivoted_tables, pivoted)
        pivot_columns == IF "vitals" \in pivoted_tables THEN pivoted.columns ELSE {}
        missing == MissingColumns(pivot_columns, category_filters, optional_tables)
        with_pivoted ==
            IF "vitals" \in pivoted_tables
            THEN Register(registered, {"vitals_pivoted"},
                          [n \in {"vitals_pivoted"} |-> pivoted])
            ELSE registered
    IN  [registered |-> with_pivoted, final_df |->
        IF "in_dttm" \notin adt_columns /\ timed = {}
        THEN \* no event_time_queries: return base_cohort
             [status |-> "base_cohort", raised_at |-> "",
              required_ids |-> required_ids, pivoted_tables |-> {}, columns |-> {},
              rows |-> {[hospitalization_id |-> a.hospitalization_id,
                         patient_id |-> a.patient_id] : a \in base_cohort}]
        ELSE IF "in_dttm" \notin adt_columns
        THEN \* adt_with_combo selects in_dttm, a column adt_df does not have
             WideRaised("join")
        ELSE IF \E t \in DOMAIN raw_at_join \ pivoted_tables :
                   ~HasTimestampColumn(registered[RawName(t)].columns)
        THEN \* <table>_with_combo selects the timestamp column, which
             \* <table>_raw does not have
             WideRaised("join")
        ELSE IF \E r \in joined : IsNull(r.event_time)
        THEN \* rank() of a NaT date is NaN and astype(int) raises
             WideRaised("rank")
        ELSE [status |-> "ok",
              raised_at |-> "",
              required_ids |-> required_ids,
              pivoted_tables |-> pivoted_tables,
              columns |-> pivot_columns \cup missing,
              rows |-> {[hospitalization_id |-> r.hospitalization_id,
                         patient_id |-> r.patient_id,
                         event_time |-> r.event_time[1],
                         adt |-> r.adt,
                         pivoted |-> [c \in pivot_columns \cup missing |->
                                        IF c \in pivot_columns
                                        THEN r.pivoted[c] ELSE NULL],
                         vitals_raw |-> r.vitals_raw,
                         respiratory_support |-> r.respiratory_support,
                         day_number |-> DayNumber(joined, r)] : r \in joined}]]

\* the DataFrame create_wide_dataset returns, or the error it raises
WideDataset(call, sampled_ids, pivot_ok, first) ==
    WideBuild(call, sampled_ids, pivot_ok, first).final_df

\* the names the cleanup of lines 270-294 drops: registered DataFrames are
\* views, '<table>_pivoted' is a table
CleanupViews(optional_tables) ==
    {"patient_df", "hospitalization_df", "adt_df", "base_cohort"}
    \cup {RawName(t) : t \in optional_tables}

CleanupTables(optional_tables) == {t \o "_pivoted" : t \in optional_tables}

\* duckdb_tables after a call that ran as build: the cleanup is reached on the
\* normal return only
\*   drops_views: DROP TABLE IF EXISTS removes a registered DataFrame (a view);
\*                when it does not, the statement fails and the error is passed over
RegisteredAfter(call, build, drops_views) ==
    LET dropped == CleanupTables(call.optional_tables)
                   \cup (IF drops_views THEN CleanupViews(call.optional_tables) ELSE {})
    IN  IF build.final_df.status = "ok"
        THEN [n \in DOMAIN build.registered \ dropped |-> build.registered[n]]
        ELSE build.registered

----------------------------------------------------------------------------
(* Specification of create_wide_dataset *)

NoWide ==
    [status |-> "none", raised_at |-> "", required_ids |-> {}, pivoted_tables |-> {}, columns |-> {},
     rows |-> {}]

NoWideCall ==
    [optional_tables |-> {}, category_filters |-> NULL, sample |-> FALSE,
     hospitalization_ids |-> NULL, base_table_columns |-> NULL]

\* nothing is registered with a fresh DuckDB connection
NoTables == <<>>

NoHourly == [status |-> "none", columns |-> {}, rows |-> <<>>]

NoHourlyCall == [called |-> FALSE, aggregation_config |-> <<>>]

\* no wide table is at hand
NoColumns == [keys |-> {}, data |-> <<>>]

HourlyIdle ==
    /\ wide_df = <<>>
    /\ wide_df_columns = NoColumns
    /\ printed = <<>>
    /\ aggregation_config = <<>>
    /\ hourly_call = NoHourlyCall
    /\ hourly_df = NoHourly

Init ==
    /\ hospitalization = HospitalizationDf(HospitalizationIds)
    /\ adt = {}
    /\ vitals = {}
    /\ respiratory_support = {}
    /\ loaded = BaseTables \cup OptionalTables
    /\ duckdb_tables = NoTables
    /\ table_df_columns = TableColumns
    /\ running = NoRunning
    /\ med_df = NoMedication
    /\ converted_med_df = NoConversion
    /\ wide_call = NoWideCall
    /\ final_df = NoWide
    /\ HourlyIdle

RowsLoaded ==
    Cardinality(adt) + Cardinality(vitals) + Cardinality(respiratory_support)

\* the loader adds a location transfer
LoadAdt ==
    /\ final_df.status = "none"
    /\ RowsLoaded < MaxRows
    /\ \E r \in AdtRows \ adt : adt' = adt \cup {r}
    /\ "adt" \in loaded
    /\ UNCHANGED <<hospitalization, table_df_columns, running, med_df, converted_med_df,
                   vitals, respiratory_support, loaded, duckdb_tables, wide_call,
                   final_df, hourly_vars>>

\* the loader adds a vitals measurement
LoadVitals ==
    /\ final_df.status = "none"
    /\ RowsLoaded < MaxRows
    /\ \E r \in VitalsRows \ vitals : vitals' = vitals \cup {r}
    /\ "vitals" \in loaded
    /\ UNCHANGED <<hospitalization, table_df_columns, running, med_df, converted_med_df,
                   adt, respiratory_support, loaded, duckdb_tables, wide_call,
                   final_df, hourly_vars>>

\* the loader adds a respiratory-support record
LoadRespiratorySupport ==
    /\ final_df.status = "none"
    /\ RowsLoaded < MaxRows
    /\ \E r \in RespiratorySupportRows \ respiratory_support :
          respiratory_support' = respiratory_support \cup {r}
    /\ "respiratory_support" \in loaded
    /\ UNCHANGED <<hospitalization, table_df_columns, running, med_df, converted_med_df,
                   adt, vitals, loaded, duckdb_tables, wide_call, final_df,
                   hourly_vars>>

\* one call create_wide_dataset(clif_instance, ...) with arguments out of calls;
\* the draw of sample(), the outcome of the PIVOT statement, the pick of first()
\* and the effect of DROP TABLE on a view are the engine's
CallCreateWideDataset(calls) ==
    \E call \in calls :
       \E sampled_ids \in (IF call.hospitalization_ids = NULL /\ call.sample
                           THEN SampleChoices(RequiredIds(hospitalization))
                           ELSE {{}}) :
          LET required_ids ==
                  RequiredIds(FilterHospitalizations(call.hospitalization_ids,
                                                     call.sample, sampled_ids))
              pivot_data ==
                  IF "vitals" \in SelectedTables(call)
                  THEN PivotData("vitals", FilterToCohort(vitals, required_ids),
                                 call.category_filters)
                  ELSE {}
          IN  \E pivot_ok \in PivotOutcomes(pivot_data),
                 first \in PivotFirstChoices(pivot_data),
                 drops_views \in BOOLEAN :
                 LET build == WideBuild(call, sampled_ids, pivot_ok, first)
                 IN  /\ wide_call' = call
                     /\ final_df' = build.final_df
                     /\ duckdb_tables' = RegisteredAfter(call, build, drops_views)

\* one call of create_wide_dataset on the loaded tables
CreateWideDataset ==
    /\ final_df.status = "none"
    /\ CallCreateWideDataset(WideCalls)
    /\ UNCHANGED <<hospitalization, table_df_columns, running, med_df, converted_med_df,
                   adt, vitals, respiratory_support, loaded,
                   hourly_vars>>

Next ==
    \/ LoadAdt
    \/ LoadVitals
    \/ LoadRespiratorySupport
    \/ CreateWideDataset

Spec == Init /\ [][Next]_vars

----------------------------------------------------------------------------
(* Specification of create_wide_dataset with base_table_columns and with    *)
(* clif instances that do not hold every table                              *)

\* the tables a clif_instance holds: all, or all but one
LoadedChoices ==
    {BaseTables \cup OptionalTables}
    \cup {(BaseTables \cup OptionalTables) \ {t} :
            t \in {"vitals", "patient", "hospitalization", "adt"}}

\* base_table_columns: None, a subset of adt that leaves out in_dttm and names a
\* column adt does not have, or a subset of every base table
BaseTableColumnsChoices ==
    {NULL,
     Some([adt |-> {"location_category", "no_such_column"}]),
     Some([patient |-> {}, hospitalization |-> {"age_at_admission"},
           adt |-> {"in_dttm"}])}

OptionCalls ==
    [optional_tables : {{}, {"vitals"}},
     category_filters : {NULL, Some([vitals |-> {"map"}])},
     sample : {FALSE},
     hospitalization_ids : HospitalizationIdsChoices,
     base_table_columns : BaseTableColumnsChoices]

InitOptions ==
    /\ hospitalization = HospitalizationDf(HospitalizationIds)
    /\ adt = {}
    /\ vitals = {}
    /\ respiratory_support = {}
    /\ loaded \in LoadedChoices
    /\ duckdb_tables = NoTables
    /\ table_df_columns = TableColumns
    /\ running = NoRunning
    /\ med_df = NoMedication
    /\ converted_med_df = NoConversion
    /\ wide_call = NoWideCall
    /\ final_df = NoWide
    /\ HourlyIdle

\* the loader adds the one row of the instance
LoadOneRow ==
    /\ RowsLoaded = 0
    /\ (LoadAdt \/ LoadVitals)

CreateWideDatasetWithOptions ==
    /\ final_df.status = "none"
    /\ CallCreateWideDataset(OptionCalls)
    /\ UNCHANGED <<hospitalization, table_df_columns, running, med_df, converted_med_df,
                   adt, vitals, respiratory_support, loaded,
                   hourly_vars>>

NextOptions ==
    \/ LoadOneRow
    \/ CreateWideDatasetWithOptions

SpecOptions == InitOptions /\ [][NextOptions]_vars

----------------------------------------------------------------------------
(* Specification of a process that calls create_wide_dataset several times, *)
(* on clif instances that hold different optional tables.  duckdb.register   *)
(* and duckdb.sql use the default connection of the process, so what a call *)
(* leaves registered is there for the next call.                            *)

\* the optional tables a clif_instance holds beside the base tables
EngineLoadedChoices == {BaseTables \cup tables : tables \in SUBSET OptionalTables}

EngineCalls ==
    [optional_tables : OptionalTableChoices,
     category_filters : {NULL},
     sample : {FALSE},
     hospitalization_ids : HospitalizationIdsChoices,
     base_table_columns : {NULL}]

\* hospitalization 1 has a location transfer, a vitals measurement and a
\* respiratory-support record in the same minute; hospitalization 2 has no row
InitEngine ==
    /\ hospitalization = HospitalizationDf(HospitalizationIds)
    /\ adt = {[hospitalization_id |-> 1, in_dttm |-> 0, location_category |-> "icu"]}
    /\ vitals = {[hospitalization_id |-> 1, recorded_dttm |-> 0,
                  vital_category |-> "map", vital_value |-> Num(80)]}
    /\ respiratory_support = {[hospitalization_id |-> 1, recorded_dttm |-> 0,
                               fio2_set |-> Num(40)]}
    /\ loaded \in EngineLoadedChoices
    /\ duckdb_tables = NoTables
    /\ table_df_columns = TableColumns
    /\ running = NoRunning
    /\ med_df = NoMedication
    /\ converted_med_df = NoConversion
    /\ wide_call = NoWideCall
    /\ final_df = NoWide
    /\ HourlyIdle

\* the caller is done with the outcome of the last call and goes on with a
\* clif instance that holds the same data in the tables it has loaded
NewClifInstance ==
    /\ final_df.status # "none"
    /\ loaded' \in EngineLoadedChoices
    /\ wide_call' = NoWideCall
    /\ final_df' = NoWide
    /\ UNCHANGED <<hospitalization, table_df_columns, running, med_df, converted_med_df,
                   adt, vitals, respiratory_support, duckdb_tables,
                   hourly_vars>>

CreateWideDatasetOnEngine ==
    /\ final_df.status = "none"
    /\ CallCreateWideDataset(EngineCalls)
    /\ UNCHANGED <<hospitalization, table_df_columns, running, med_df, converted_med_df,
                   adt, vitals, respiratory_support, loaded,
                   hourly_vars>>

NextEngine ==
    \/ NewClifInstance
    \/ CreateWideDatasetOnEngine

SpecEngine == InitEngine /\ [][NextEngine]_vars

----------------------------------------------------------------------------
(* Specification of create_wide_dataset on tables that lack a column the    *)
(* function names: the timestamp column of an optional table, or the value  *)
(* column of a pivoted table.  A row's field of a column its table does not *)
(* have is never read.                                                      *)

\* df.columns of the optional tables: the CLIF columns, or all but one of them
SchemaChoices ==
    {TableColumns,
     [TableColumns EXCEPT !.vitals = @ \ {"vital_value"}],
     [TableColumns EXCEPT !.vitals = @ \ {"recorded_dttm"}],
     [TableColumns EXCEPT !.respiratory_support = @ \ {"recorded_dttm"}]}

SchemaCalls ==
    [optional_tables : OptionalTableChoices,
     category_filters : {NULL, Some([vitals |-> {"map"}])},
     sample : {FALSE},
     hospitalization_ids : HospitalizationIdsChoices,
     base_table_columns : {NULL}]

InitSchema ==
    /\ hospitalization = HospitalizationDf(HospitalizationIds)
    /\ adt = {}
    /\ vitals = {}
    /\ respiratory_support = {}
    /\ loaded = BaseTables \cup OptionalTables
    /\ duckdb_tables = NoTables
    /\ table_df_columns \in SchemaChoices
    /\ running = NoRunning
    /\ med_df = NoMedication
    /\ converted_med_df = NoConversion
    /\ wide_call = NoWideCall
    /\ final_df = NoWide
    /\ HourlyIdle

CreateWideDatasetOnSchema ==
    /\ final_df.status = "none"
    /\ CallCreateWideDataset(SchemaCalls)
    /\ UNCHANGED <<hospitalization, table_df_columns, running, med_df, converted_med_df,
                   adt, vitals, respiratory_support, loaded,
                   hourly_vars>>

NextSchema ==
    \/ LoadAdt
    \/ LoadVitals
    \/ LoadRespiratorySupport
    \/ CreateWideDatasetOnSchema

SpecSchema == InitSchema /\ [][NextSchema]_vars

----------------------------------------------------------------------------
(* Specification of two create_wide_dataset calls that run at the same time *)
(* in one process, call 1 on hospitalization 1 and call 2 on                *)
(* hospitalization 2.  duckdb.register, duckdb.execute and duckdb.sql use   *)
(* the default connection of the process, and the names the function        *)
(* registers are fixed, so both calls work on the same duckdb_tables.  A    *)
(* step is one of: the registrations of lines 83-86 and 115, the pivot of   *)
(* lines 348-364, the queries of lines 149-232 with the rest up to line     *)
(* 253, the cleanup of lines 270-294.                                       *)

CallIds == {1, 2}

\* the arguments of call i: its own hospitalization, with or without vitals
ConcurrentCalls(i) ==
    [optional_tables : {{}, {"vitals"}},
     category_filters : {NULL},
     sample : {FALSE},
     hospitalization_ids : {Some({i})},
     base_table_columns : {NULL}]

ConcurrentVitals ==
    {[hospitalization_id |-> 1, recorded_dttm |-> 0,
      vital_category |-> "map", vital_value |-> Num(80)],
     [hospitalization_id |-> 2, recorded_dttm |-> 0,
      vital_category |-> "map", vital_value |-> Num(120)],
     [hospitalization_id |-> 2, recorded_dttm |-> 60,
      vital_category |-> "heart_rate", vital_value |-> Num(80)]}

\* a call that has not run a step yet
\*   foreign: the names it read or dropped while the other call had them registered
StartedCall(call) ==
    [pc |-> "register", call |-> call, pivoted_tables |-> {}, final_df |-> NoWide,
     foreign |-> {}]

\* every hospitalization has a location transfer at 00:00
InitConcurrent ==
    /\ hospitalization = HospitalizationDf(HospitalizationIds)
    /\ adt = {[hospitalization_id |-> h, in_dttm |-> 0, location_category |-> "icu"] :
                h \in HospitalizationIds}
    /\ vitals \in SUBSET ConcurrentVitals
    /\ respiratory_support = {}
    /\ loaded = BaseTables \cup OptionalTables
    /\ duckdb_tables = NoTables
    /\ table_df_columns = TableColumns
    /\ \E c1 \in ConcurrentCalls(1), c2 \in ConcurrentCalls(2) :
          running = [calls |-> (1 :> StartedCall(c1)) @@ (2 :> StartedCall(c2)),
                     owner |-> <<>>]
    /\ med_df = NoMedication
    /\ converted_med_df = NoConversion
    /\ wide_call = NoWideCall
    /\ final_df = NoWide
    /\ HourlyIdle

\* the names of ns that are registered by a call other than i
ForeignNames(i, ns) ==
    {n \in ns \cap DOMAIN running.owner : running.owner[n] # i}

\* call i registers or creates the names ns
OwnedBy(i, ns) ==
    [n \in DOMAIN running.owner \cup ns |-> IF n \in ns THEN i ELSE running.owner[n]]

\* what the steps of a call leave alone
ConcurrentUnchanged ==
    UNCHANGED <<hospitalization, adt, vitals, respiratory_support, loaded,
                table_df_columns, med_df, converted_med_df, wide_call, final_df,
                hourly_vars>>

\* lines 83-86 and 115: duckdb.register of the base tables and of the raw tables
RegisterStep(i) ==
    LET c == running.calls[i]
        hospitalization_df ==
            FilterHospitalizations(c.call.hospitalization_ids, c.call.sample, {})
        required_ids == RequiredIds(hospitalization_df)
        registered == RegisteredAtJoin(c.call, hospitalization_df,
                         FilterToCohort(adt, required_ids),
                         RawTables(SelectedTables(c.call), required_ids))
        names == {"patient_df", "hospitalization_df", "adt_df", "base_cohort"}
                 \cup {RawName(t) : t \in SelectedTables(c.call)}
    IN  /\ c.pc = "register"
        /\ duckdb_tables' = registered
        /\ running' = [calls |-> [running.calls EXCEPT ![i].pc = "pivot"],
                       owner |-> OwnedBy(i, names)]
        /\ ConcurrentUnchanged

\* lines 348-364: CREATE OR REPLACE TABLE vitals_pivoted from the vitals_raw that
\* is registered; without it the statement fails and the except branch returns None
PivotStep(i) ==
    LET c == running.calls[i]
    IN  /\ c.pc = "pivot"
        /\ ConcurrentUnchanged
        /\ IF "vitals" \in SelectedTables(c.call) /\ "vitals_raw" \in DOMAIN duckdb_tables
           THEN LET pivot_data == PivotData("vitals", duckdb_tables["vitals_raw"].rows,
                                            c.call.category_filters)
                IN  \E pivot_ok \in PivotOutcomes(pivot_data),
                       first \in PivotFirstChoices(pivot_data) :
                       /\ duckdb_tables' =
                             IF pivot_ok
                             THEN Register(duckdb_tables, {"vitals_pivoted"},
                                    [n \in {"vitals_pivoted"} |->
                                       PivotTable(pivot_data, first)])
                             ELSE duckdb_tables
                       /\ running' =
                             [calls |-> [running.calls EXCEPT
                                 ![i].pc = "join",
                                 ![i].pivoted_tables = IF pivot_ok THEN {"vitals"} ELSE {},
                                 ![i].foreign = @ \cup ForeignNames(i, {"vitals_raw"})],
                              owner |-> IF pivot_ok THEN OwnedBy(i, {"vitals_pivoted"})
                                        ELSE running.owner]
           ELSE /\ duckdb_tables' = duckdb_tables
                /\ running' = [running EXCEPT !.calls[i].pc = "join"]

\* the names the queries of lines 149-232 read
JoinNames(call, pivoted_tables) ==
    {"base_cohort", "adt_df"}
    \cup {RawName(t) : t \in SelectedTables(call)}
    \cup {t \o "_pivoted" : t \in pivoted_tables}

\* lines 149-253 on the tables that are registered when the queries run: a
\* query that names a table which is not registered raises
JoinOnRegistered(call, pivoted_tables) ==
    IF ~(JoinNames(call, pivoted_tables) \subseteq DOMAIN duckdb_tables)
    THEN WideRaised("join")
    ELSE
    LET base_cohort == duckdb_tables["base_cohort"].rows
        adt_df == duckdb_tables["adt_df"].rows
        adt_columns == duckdb_tables["adt_df"].columns
        raw == [t \in SelectedTables(call) |-> duckdb_tables[RawName(t)].rows]
        raw_at_join == [t \in {x \in call.optional_tables :
                                  RawName(x) \in DOMAIN duckdb_tables}
                          |-> duckdb_tables[RawName(t)].rows]
        pivoted == IF "vitals" \in pivoted_tables
                   THEN duckdb_tables["vitals_pivoted"]
                   ELSE PivotTable({}, <<>>)
        expanded_df == ExpandedDf(base_cohort, UniEventDttm(adt_df, raw))
        joined == JoinQuery(expanded_df, adt_df, adt_columns, raw_at_join,
                            pivoted_tables, pivoted)
        pivot_columns == IF "vitals" \in pivoted_tables THEN pivoted.columns ELSE {}
    IN  IF \E r \in joined : IsNull(r.event_time)
        THEN WideRaised("rank")
        ELSE [status |-> "ok",
              raised_at |-> "",
              required_ids |-> call.hospitalization_ids[1],
              pivoted_tables |-> pivoted_tables,
              columns |-> pivot_columns,
              rows |-> {[hospitalization_id |-> r.hospitalization_id,
                         patient_id |-> r.patient_id,
                         event_time |-> r.event_time[1],
                         adt |-> r.adt,
                         pivoted |-> [col \in pivot_columns |-> r.pivoted[col]],
                         vitals_raw |-> r.vitals_raw,
                         respiratory_support |-> r.respiratory_support,
                         day_number |-> DayNumber(joined, r)] : r \in joined}]

\* lines 149-253: the event-time query and the join query; an error leaves the
\* function before the cleanup
JoinStep(i) ==
    LET c == running.calls[i]
        df == JoinOnRegistered(c.call, c.pivoted_tables)
    IN  /\ c.pc = "join"
        /\ running' = [running EXCEPT
              !.calls[i].pc = IF df.status = "ok" THEN "cleanup" ELSE "done",
              !.calls[i].final_df = df,
              !.calls[i].foreign =
                  @ \cup ForeignNames(i, JoinNames(c.call, c.pivoted_tables))]
        /\ duckdb_tables' = duckdb_tables
        /\ ConcurrentUnchanged

\* lines 270-294: DROP TABLE IF EXISTS of the fixed names
CleanupStep(i) ==
    LET c == running.calls[i]
    IN  /\ c.pc = "cleanup"
        /\ ConcurrentUnchanged
        /\ \E drops_views \in BOOLEAN :
              LET dropped == (CleanupTables(c.call.optional_tables)
                              \cup (IF drops_views
                                    THEN CleanupViews(c.call.optional_tables) ELSE {}))
                             \cap DOMAIN duckdb_tables
              IN  /\ duckdb_tables' = [n \in DOMAIN duckdb_tables \ dropped |->
                                         duckdb_tables[n]]
                  /\ running' =
                        [calls |-> [running.calls EXCEPT
                            ![i].pc = "done",
                            ![i].foreign = @ \cup ForeignNames(i, dropped)],
                         owner |-> [n \in DOMAIN running.owner \ dropped |->
                                      running.owner[n]]]

NextConcurrent ==
    \/ \E i \in CallIds : RegisterStep(i)
    \/ \E i \in CallIds : PivotStep(i)
    \/ \E i \in CallIds : JoinStep(i)
    \/ \E i \in CallIds : CleanupStep(i)

SpecConcurrent == InitConcurrent /\ [][NextConcurrent]_vars

----------------------------------------------------------------------------
(* Properties of create_wide_dataset *)

Built == final_df.status = "ok"

\* the cohort of the call
CohortIds ==
    {r.hospitalization_id : r \in FilterToCohort(hospitalization,
        IF wide_call.hospitalization_ids # NULL
        THEN wide_call.hospitalization_ids[1]
        ELSE RequiredIds(hospitalization))}

\* the source timestamps of hospitalization h: in_dttm of its location transfers
\* and the timestamps of its rows in the selected optional tables
SourceTimes(h) ==
    {r.in_dttm : r \in {x \in adt : x.hospitalization_id = h}}
    \cup (IF "vitals" \in wide_call.optional_tables
          THEN {r.recorded_dttm : r \in {x \in vitals : x.hospitalization_id = h}}
          ELSE {})
    \cup (IF "respiratory_support" \in wide_call.optional_tables
          THEN {r.recorded_dttm :
                  r \in {x \in respiratory_support : x.hospitalization_id = h}}
          ELSE {})

MinuteOf(ts) == ts \div SecondsPerMinute

\* the vitals rows behind cell c of wide row w: same hospitalization, category c,
\* timestamp in the minute of w.event_time
SourceRows(w, c) ==
    {v \in vitals : /\ v.hospitalization_id = w.hospitalization_id
                    /\ v.vital_category = c
                    /\ MinuteOf(v.recorded_dttm) = MinuteOf(w.event_time)}

\* C1: in the table create_wide_dataset returns, no two rows share the same
\* (hospitalization_id, event_time) pair, whatever the number of location
\* transfers, pivoted rows and respiratory-support rows per minute.
C1_UniqueEventRows ==
    Built =>
        \A r1, r2 \in final_df.rows :
            (/\ r1.hospitalization_id = r2.hospitalization_id
             /\ r1.event_time = r2.event_time) => r1 = r2

\* C2: for every hospitalization H of the cohort, the number of wide rows of H
\* equals the number of distinct minute-truncated source timestamps of H; two
\* timestamps of H in the same minute yield a single wide row.
C2_RowsPerDistinctMinute ==
    Built =>
        \A h \in CohortIds :
            Cardinality({r \in final_df.rows : r.hospitalization_id = h})
                = Cardinality({MinuteOf(t) : t \in SourceTimes(h)})

\* C3: a pivoted category column c is non-null on a wide row only if vitals holds
\* a row of the same hospitalization and category c in the minute of the row's
\* event_time.
C3_PivotedCellHasSource ==
    Built =>
        \A w \in final_df.rows : \A c \in final_df.columns :
            NotNull(w.pivoted[c]) => SourceRows(w, c) # {}

\* C3 witness: a category value sits on its own row and is absent from another
\* wide row, while a second source row exists elsewhere.
C3_Witness ==
    /\ Built
    /\ Cardinality(vitals) >= 2
    /\ \E w1, w2 \in final_df.rows : \E c \in final_df.columns :
          /\ NotNull(w1.pivoted[c])
          /\ IsNull(w2.pivoted[c])
          /\ SourceRows(w2, c) = {}

\* C4 as stated: a pivoted cell is non-null if and only if at least one source
\* row exists for its hospitalization, category and minute.
C4_NonNullIffSourceRow ==
    Built =>
        \A w \in final_df.rows : \A c \in final_df.columns :
            NotNull(w.pivoted[c]) <=> SourceRows(w, c) # {}

\* C4 amended: a pivoted cell is non-null only if a source row of its
\* hospitalization, category and minute carries a non-null value, and it is
\* non-null whenever such source rows exist and all of them carry a value.
C4_NonNullIffSourceValue ==
    Built =>
        \A w \in final_df.rows : \A c \in final_df.columns :
            /\ NotNull(w.pivoted[c]) =>
                  \E v \in SourceRows(w, c) : NotNull(v.vital_value)
            /\ (/\ SourceRows(w, c) # {}
                /\ \A v \in SourceRows(w, c) : NotNull(v.vital_value))
                  => NotNull(w.pivoted[c])

\* C4 witness: one cell is filled from a source row with a value, another cell
\* stays null although a (null-valued) source row exists for it.
C4_Witness ==
    /\ Built
    /\ \E w \in final_df.rows : \E c \in final_df.columns :
          /\ NotNull(w.pivoted[c])
          /\ \A v \in SourceRows(w, c) : NotNull(v.vital_value)
    /\ \E w \in final_df.rows : \E c \in final_df.columns :
          /\ IsNull(w.pivoted[c])
          /\ SourceRows(w, c) # {}

----------------------------------------------------------------------------
(* Texts of the hourly aggregator: column names and categorical values *)

\* the characters re.sub(r'[^a-zA-Z0-9_]', '_', ...) keeps
WordCharacters ==
    {"a", "b", "c", "d", "e", "f", "g", "h", "i", "j", "k", "l", "m",
     "n", "o", "p", "q", "r", "s", "t", "u", "v", "w", "x", "y", "z",
     "A", "B", "C", "D", "E", "F", "G", "H", "I", "J", "K", "L", "M",
     "N", "O", "P", "Q", "R", "S", "T", "U", "V", "W", "X", "Y", "Z",
     "0", "1", "2", "3", "4", "5", "6", "7", "8", "9", "_"}

\* re.sub(r'[^a-zA-Z0-9_]', '_', text)
Sanitize(text) ==
    [i \in 1..Len(text) |-> IF text[i] \in WordCharacters THEN text[i] ELSE "_"]

\* text.startswith(prefix)
StartsWith(text, prefix) ==
    /\ Len(prefix) <= Len(text)
    /\ SubSeq(text, 1, Len(prefix)) = prefix

Digits == <<"0", "1", "2", "3", "4", "5", "6", "7", "8", "9">>

\* str(val): a text is itself; a number of a pandas float column prints as
\* "n.0" or "n.5" (the numbers of the model are below 10)
StrOf(value) ==
    IF value[1] = "str" THEN value[2]
    ELSE <<Digits[value[2] + 1], ".", IF value[3] = 0 THEN "0" ELSE "5">>

\* f"{col}_<method>" and f"{col}_c"
MethodPostfix(postfix) ==
    CASE postfix = "max" -> <<"_", "m", "a", "x">>
      [] postfix = "min" -> <<"_", "m", "i", "n">>
      [] postfix = "first" -> <<"_", "f", "i", "r", "s", "t">>
      [] postfix = "last" -> <<"_", "l", "a", "s", "t">>
      [] postfix = "boolean" -> <<"_", "b", "o", "o", "l", "e", "a", "n">>
      [] postfix = "c" -> <<"_", "c">>

ColumnName(col, postfix) == col \o MethodPostfix(postfix)

\* f"{col}_{val}" with the special characters replaced
OneHotName(col, value) == Sanitize(col \o <<"_">> \o StrOf(value))

----------------------------------------------------------------------------
(* Bounds and input domains of convert_wide_to_hourly *)

\* number of rows of the wide table
MaxWideRows == 2

\* 00:00:00, 00:59:00 (same hour), 01:00:00 (next hour), next day 01:00:00
HourlyTimes == {0, 3540, 3600, 90000}

\* data columns of the wide table, in column order: a text column "c" and a
\* numeric column "c_x" whose name starts with "c_"
col_c == <<"c">>

col_c_x == <<"c", "_", "x">>

DataColumns == <<col_c, col_c_x>>

DataColumnSet == {DataColumns[i] : i \in 1..Len(DataColumns)}

\* the key columns create_wide_dataset gives the wide table
KeyColumns == {"hospitalization_id", "patient_id", "event_time", "day_number"}

\* wide_df.columns of the wide tables of SpecHourly
WideColumns == [keys |-> KeyColumns, data |-> DataColumns]

\* the data columns of the wide table at hand
DfDataColumns == {wide_df_columns.data[i] : i \in 1..Len(wide_df_columns.data)}

\* "a b" and "a-b" differ only in a character outside [A-Za-z0-9_]
TextValues == {NULL, Str(<<"a", " ", "b">>), Str(<<"a", "-", "b">>)}

\* 1.0 and 1.5
NumericValues == {NULL, Num(1), NumHalf(1)}

\* a row of the wide table: the key columns and one cell per data column
WideRows ==
    {[hospitalization_id |-> h, event_time |-> t,
      cells |-> [col \in DataColumnSet |-> IF col = col_c THEN tv ELSE nv]] :
        h \in HospitalizationIds, t \in HourlyTimes,
        tv \in TextValues, nv \in NumericValues}

\* the aggregation_config dicts callers pass: a dict is the sequence of its
\* (method, column list) items in insertion order
AggregationConfigs ==
    { <<>>,
      << <<"boolean", <<col_c_x>>>> >>,
      << <<"boolean", <<col_c, col_c_x>>>> >>,
      << <<"one_hot_encode", <<col_c>>>> >>,
      << <<"one_hot_encode", <<col_c>>>>, <<"boolean", <<col_c_x>>>> >>,
      << <<"first", <<col_c_x>>>> >>,
      << <<"first", <<col_c>>>>, <<"one_hot_encode", <<col_c>>>> >>,
      << <<"max", <<col_c_x>>>>, <<"min", <<col_c_x>>>>, <<"last", <<col_c>>>> >> }

----------------------------------------------------------------------------
(* convert_wide_to_hourly: hour key and nth_hour *)

\* variant: the hour key is the event time itself, not floored
EventTimeUnfloored(event_time) == event_time

\* df['event_time'].dt.floor('H')
EventTimeHour(event_time) == (event_time \div SecondsPerHour) * SecondsPerHour

MinOf(S) == CHOOSE x \in S : \A y \in S : x <= y

MaxOf(S) == CHOOSE x \in S : \A y \in S : x >= y

\* variant: the first event of the hospitalization, not floored to its hour
FirstEventTime(df, hospitalization_id) ==
    MinOf({df[i].event_time :
             i \in {j \in 1..Len(df) : df[j].hospitalization_id = hospitalization_id}})

\* df.groupby('hospitalization_id')['event_time_hour'].min()
FirstEventHour(df, hospitalization_id) ==
    MinOf({EventTimeHour(df[i].event_time) :
             i \in {j \in 1..Len(df) : df[j].hospitalization_id = hospitalization_id}})

\* ((event_time_hour - first_event_hour).dt.total_seconds() // 3600).astype(int)
NthHour(df, row) ==
    (EventTimeHour(row.event_time) - FirstEventHour(df, row.hospitalization_id))
        \div SecondsPerHour

\* event_time_hour.hour
HourBucket(event_time_hour) == (event_time_hour % SecondsPerDay) \div SecondsPerHour

\* wide_df['day_number'] as create_wide_dataset sets it: the dense rank of the
\* row's date within its hospitalization
DayNumberColumn(df, row) ==
    Cardinality({DateOf(df[i].event_time) :
                   i \in {j \in 1..Len(df) :
                            /\ df[j].hospitalization_id = row.hospitalization_id
                            /\ DateOf(df[j].event_time) <= DateOf(row.event_time)}})

\* wide_df['patient_id'] as the base cohort sets it
PatientIdColumn(row) ==
    (CHOOSE h \in hospitalization : h.hospitalization_id = row.hospitalization_id).patient_id

----------------------------------------------------------------------------
(* convert_wide_to_hourly: the aggregation_config dict *)

\* 'm' in aggregation_config
HasMethod(config, method) == \E i \in 1..Len(config) : config[i][1] = method

\* all_agg_columns: every column a list of the config names
AllAggColumns(config) ==
    UNION {{config[i][2][k] : k \in 1..Len(config[i][2])} : i \in 1..Len(config)}

\* non_agg_columns: the data columns of df no list of the config names, in
\* column order (the key and helper columns are excluded by name)
NonAggColumns(config) ==
    SelectSeq(wide_df_columns.data, LAMBDA col : col \notin AllAggColumns(config))

\* aggregation_config after lines 596-605: a 'first' item is added when absent
\* and the non-agg columns are appended to its list, in the caller's dict
ExtendFirst(config, non_agg_columns) ==
    IF non_agg_columns = <<>> THEN config
    ELSE LET with_first == IF HasMethod(config, "first") THEN config
                           ELSE Append(config, <<"first", <<>>>>)
         IN  [i \in 1..Len(with_first) |->
                IF with_first[i][1] = "first"
                THEN <<"first", with_first[i][2] \o non_agg_columns>>
                ELSE with_first[i]]

\* the (method, column) pairs in the order the two loops of lines 634-635 visit
RECURSIVE ConfigItems(_)
ConfigItems(config) ==
    IF config = <<>> THEN <<>>
    ELSE [k \in 1..Len(config[1][2]) |-> <<config[1][1], config[1][2][k]>>]
         \o ConfigItems(Tail(config))

----------------------------------------------------------------------------
(* convert_wide_to_hourly: one group *)

\* the group key of a row: (hospitalization_id, event_time_hour, nth_hour)
GroupKey(df, row) ==
    <<row.hospitalization_id, EventTimeHour(row.event_time), NthHour(df, row)>>

GroupKeys(df) == {GroupKey(df, df[i]) : i \in 1..Len(df)}

\* lexicographic order of group keys, and of (hospitalization_id, nth_hour)
KeyLeq(a, b) ==
    \/ a[1] < b[1]
    \/ a[1] = b[1] /\ a[2] < b[2]
    \/ a[1] = b[1] /\ a[2] = b[2] /\ a[3] <= b[3]

\* df.groupby(group_cols) iterates the groups in ascending key order
RECURSIVE SortedKeys(_)
SortedKeys(keys) ==
    IF keys = {} THEN <<>>
    ELSE LET first == CHOOSE x \in keys : \A y \in keys : KeyLeq(x, y)
         IN  <<first>> \o SortedKeys(keys \ {first})

\* group_df: the rows of the group, in the order of df
GroupDf(df, key) == SelectSeq(df, LAMBDA row : GroupKey(df, row) = key)

\* variant: group_df[col] without dropna()
ColValuesWithNulls(group_df, col) ==
    [i \in 1..Len(group_df) |-> group_df[i].cells[col]]

\* group_df[col].dropna()
ColValues(group_df, col) ==
    SelectSeq([i \in 1..Len(group_df) |-> group_df[i].cells[col]], NotNull)

\* a <= b for two numbers
NumLeq(a, b) == a[2] < b[2] \/ (a[2] = b[2] /\ a[3] <= b[3])

\* col_values.max() and .min() of a numeric column
MaxValue(col_values) ==
    CHOOSE v \in {col_values[i] : i \in 1..Len(col_values)} :
        \A k \in 1..Len(col_values) : NumLeq(col_values[k], v)

MinValue(col_values) ==
    CHOOSE v \in {col_values[i] : i \in 1..Len(col_values)} :
        \A k \in 1..Len(col_values) : NumLeq(v, col_values[k])

\* row_data[name] = cell
Put(row_data, name, cell) ==
    [n \in DOMAIN row_data \cup {name} |-> IF n = name THEN cell ELSE row_data[n]]

\* one pass of the loop body of lines 636-676 (mean and median, which no
\* config of the model names, are left out)
Aggregate(method, col, group_df, non_agg_columns, row_data) ==
    IF col \notin DfDataColumns THEN row_data
    ELSE
    LET col_values == ColValues(group_df, col)
        n == Len(col_values)
    IN  CASE method = "max" ->
               Put(row_data, ColumnName(col, "max"),
                   IF n > 0 THEN MaxValue(col_values) ELSE NULL)
          [] method = "min" ->
               Put(row_data, ColumnName(col, "min"),
                   IF n > 0 THEN MinValue(col_values) ELSE NULL)
          [] method = "first" ->
               IF \E k \in 1..Len(non_agg_columns) : non_agg_columns[k] = col
               THEN Put(row_data, ColumnName(col, "c"),
                        IF n > 0 THEN col_values[1] ELSE NULL)
               ELSE Put(row_data, ColumnName(col, "first"),
                        IF n > 0 THEN col_values[1] ELSE NULL)
          [] method = "last" ->
               Put(row_data, ColumnName(col, "last"),
                   IF n > 0 THEN col_values[n] ELSE NULL)
          [] method = "boolean" ->
               Put(row_data, ColumnName(col, "boolean"),
                   IF n > 0 THEN Num(1) ELSE Num(0))
          [] method = "one_hot_encode" ->
               LET names == {OneHotName(col, col_values[i]) : i \in 1..n}
               IN  [name \in DOMAIN row_data \cup names |->
                      IF name \in names THEN Num(1) ELSE row_data[name]]
          [] OTHER -> row_data

\* the loops of lines 634-676 over the items of the config
RECURSIVE ApplyAggregations(_, _, _, _)
ApplyAggregations(items, group_df, non_agg_columns, row_data) ==
    IF items = <<>> THEN row_data
    ELSE ApplyAggregations(Tail(items), group_df, non_agg_columns,
            Aggregate(items[1][1], items[1][2], group_df, non_agg_columns, row_data))

\* row_data of one group: the base info and the derived columns
RowData(df, key, config, non_agg_columns) ==
    LET group_df == GroupDf(df, key)
    IN  [hospitalization_id |-> key[1],
         event_time_hour |-> key[2],
         nth_hour |-> key[3],
         hour_bucket |-> HourBucket(key[2]),
         patient_id |-> PatientIdColumn(group_df[1]),
         day_number |-> DayNumberColumn(df, group_df[1]),
         values |-> ApplyAggregations(ConfigItems(config), group_df,
                                      non_agg_columns, <<>>)]

----------------------------------------------------------------------------
(* convert_wide_to_hourly: the result table *)

\* aggregated_data: one row_data per group, in groupby order
AggregatedData(df, config, non_agg_columns) ==
    LET keys == SortedKeys(GroupKeys(df))
    IN  [g \in 1..Len(keys) |-> RowData(df, keys[g], config, non_agg_columns)]

\* the derived columns of pd.DataFrame(aggregated_data): every key of a row_data
DerivedColumns(aggregated_data) ==
    UNION {DOMAIN aggregated_data[g].values : g \in 1..Len(aggregated_data)}

\* pd.DataFrame(aggregated_data): a key missing from a row_data is NaN
DataFrame(aggregated_data) ==
    LET columns == DerivedColumns(aggregated_data)
    IN  [g \in 1..Len(aggregated_data) |->
           [aggregated_data[g] EXCEPT !.values =
              [name \in columns |->
                 IF name \in DOMAIN aggregated_data[g].values
                 THEN aggregated_data[g].values[name] ELSE NULL]]]

\* variant: nth_hour sorted with ascending=False
SortKeyDescending(row) == <<row.hospitalization_id, 0 - row.nth_hour, 0>>

\* the sort key of sort_values(['hospitalization_id', 'nth_hour'])
SortKey(row) == <<row.hospitalization_id, row.nth_hour, 0>>

\* insertion of a row behind the rows whose key is not larger (a stable sort)
RECURSIVE InsertSorted(_, _)
InsertSorted(sorted, row) ==
    IF sorted = <<>> THEN <<row>>
    ELSE IF KeyLeq(SortKey(sorted[1]), SortKey(row))
         THEN <<sorted[1]>> \o InsertSorted(Tail(sorted), row)
         ELSE <<row>> \o sorted

\* hourly_df.sort_values(['hospitalization_id', 'nth_hour']).reset_index(drop=True)
RECURSIVE SortValues(_)
SortValues(rows) ==
    IF rows = <<>> THEN <<>>
    ELSE InsertSorted(SortValues(SubSeq(rows, 1, Len(rows) - 1)), rows[Len(rows)])

\* one_hot_cols of lines 687-691: the columns whose name starts with f"{col}_"
\* for a column col listed under one_hot_encode
OneHotCols(columns, config) ==
    {name \in columns :
        \E i \in 1..Len(config) :
            /\ config[i][1] = "one_hot_encode"
            /\ \E k \in 1..Len(config[i][2]) :
                  StartsWith(name, config[i][2][k] \o <<"_">>)}

\* hourly_df[ohc].fillna(0).astype(int) of one cell: NaN becomes 0 and a
\* number loses its fraction
FillNaAsInt(cell) == IF IsNull(cell) THEN Num(0) ELSE Num(cell[2])

\* astype(int) raises ValueError on a text that is no number
AsTypeIntRaises(rows, one_hot_cols) ==
    \E g \in 1..Len(rows) : \E name \in one_hot_cols :
        /\ NotNull(rows[g].values[name])
        /\ rows[g].values[name][1] = "str"

HourlyRaised == [status |-> "raised", columns |-> {}, rows |-> <<>>]

\* variant: the input check does not look for day_number
InputLacksEventTimeOrId(columns) ==
    \/ "event_time" \notin columns
    \/ "hospitalization_id" \notin columns

\* the input validation of lines 543-551: TRUE when it raises ValueError
InputLacksColumn(columns) ==
    \/ "event_time" \notin columns
    \/ "hospitalization_id" \notin columns
    \/ "day_number" \notin columns

\* the inner loop of lines 634-641 for one group: the warnings it prints and
\* warned_columns after it
RECURSIVE WarnItems(_, _, _)
WarnItems(items, columns, warned_columns) ==
    IF items = <<>> THEN [printed |-> <<>>, warned_columns |-> warned_columns]
    ELSE LET col == items[1][2]
             warns == col \notin columns /\ col \notin warned_columns
             rest == WarnItems(Tail(items), columns,
                               IF warns THEN warned_columns \cup {col}
                               ELSE warned_columns)
         IN  [printed |-> (IF warns THEN <<col>> ELSE <<>>) \o rest.printed,
              warned_columns |-> rest.warned_columns]

\* the warnings printed over the groups of the loop of line 616
RECURSIVE WarnGroups(_, _, _, _)
WarnGroups(groups, items, columns, warned_columns) ==
    IF groups = 0 THEN <<>>
    ELSE LET group == WarnItems(items, columns, warned_columns)
         IN  group.printed
             \o WarnGroups(groups - 1, items, columns, group.warned_columns)

\* everything the call prints at line 639
Warnings(df, config0) ==
    IF InputLacksColumn(wide_df_columns.keys) THEN <<>>
    ELSE LET config == ExtendFirst(config0, NonAggColumns(config0))
         IN  WarnGroups(Cardinality(GroupKeys(df)), ConfigItems(config),
                        DfDataColumns, {})

\* the DataFrame convert_wide_to_hourly returns for wide table df and the
\* caller's dict config, or the error it raises
HourlyDataset(df, config0) ==
    LET non_agg_columns == NonAggColumns(config0)
        config == ExtendFirst(config0, non_agg_columns)
        aggregated_data == AggregatedData(df, config, non_agg_columns)
        columns == DerivedColumns(aggregated_data)
        sorted == SortValues(DataFrame(aggregated_data))
        one_hot_cols == OneHotCols(columns, config)
    IN  IF InputLacksColumn(wide_df_columns.keys)
        THEN HourlyRaised
        ELSE IF aggregated_data = <<>>
        THEN \* the empty DataFrame has no column to sort by: KeyError
             HourlyRaised
        ELSE IF AsTypeIntRaises(sorted, one_hot_cols)
        THEN HourlyRaised
        ELSE [status |-> "ok",
              columns |-> columns,
              rows |-> [g \in 1..Len(sorted) |->
                          [sorted[g] EXCEPT !.values =
                             [name \in columns |->
                                IF name \in one_hot_cols
                                THEN FillNaAsInt(sorted[g].values[name])
                                ELSE sorted[g].values[name]]]]]

----------------------------------------------------------------------------
(* Specification of convert_wide_to_hourly *)

WideIdle ==
    /\ hospitalization = HospitalizationDf(HospitalizationIds)
    /\ adt = {}
    /\ vitals = {}
    /\ respiratory_support = {}
    /\ loaded = BaseTables \cup OptionalTables
    /\ duckdb_tables = NoTables
    /\ table_df_columns = TableColumns
    /\ running = NoRunning
    /\ med_df = NoMedication
    /\ converted_med_df = NoConversion
    /\ wide_call = NoWideCall
    /\ final_df = NoWide

\* the caller holds a wide table (still empty) and an aggregation_config
InitHourly ==
    /\ WideIdle
    /\ wide_df = <<>>
    /\ wide_df_columns = WideColumns
    /\ printed = <<>>
    /\ aggregation_config \in AggregationConfigs
    /\ hourly_call = NoHourlyCall
    /\ hourly_df = NoHourly

\* create_wide_dataset returns its rows sorted by (hospitalization_id, event_time)
FollowsLastRow(df, row) ==
    IF df = <<>> THEN TRUE
    ELSE KeyLeq(<<df[Len(df)].hospitalization_id, df[Len(df)].event_time, 0>>,
                <<row.hospitalization_id, row.event_time, 0>>)

\* the wide table gets its next row
AppendWideRow ==
    /\ hourly_df.status = "none"
    /\ Len(wide_df) < MaxWideRows
    /\ \E row \in WideRows :
          /\ FollowsLastRow(wide_df, row)
          /\ wide_df' = Append(wide_df, row)
    /\ UNCHANGED <<wide_df_columns, aggregation_config, hourly_call, hourly_df,
                   printed, wide_vars>>

\* one call convert_wide_to_hourly(wide_df, aggregation_config)
ConvertWideToHourly ==
    /\ hourly_df.status = "none"
    /\ hourly_call' = [called |-> TRUE, aggregation_config |-> aggregation_config]
    /\ aggregation_config' =
          IF InputLacksColumn(wide_df_columns.keys) THEN aggregation_config
          ELSE ExtendFirst(aggregation_config, NonAggColumns(aggregation_config))
    /\ hourly_df' = HourlyDataset(wide_df, aggregation_config)
    /\ printed' = Warnings(wide_df, aggregation_config)
    /\ UNCHANGED <<wide_df, wide_df_columns, wide_vars>>

NextHourly ==
    \/ AppendWideRow
    \/ ConvertWideToHourly

SpecHourly == InitHourly /\ [][NextHourly]_vars

----------------------------------------------------------------------------
(* convert_wide_to_hourly on wide tables that lack a key column, and with   *)
(* dicts that name an unknown method or a column the wide table lacks        *)

\* a column no wide table of the model has, and a text column whose name
\* starts with "d_"
col_d == <<"d">>

col_d_x == <<"d", "_", "x">>

TextColumns == {col_c, col_d_x}

\* wide_df.columns: all key columns or all but one of the three the input
\* check looks for; the data columns c and c_x, or d_x alone
ColumnChoices ==
    {[keys |-> keys, data |-> data] :
        keys \in {KeyColumns} \cup
                 {KeyColumns \ {key} :
                    key \in {"event_time", "hospitalization_id", "day_number"}},
        data \in {DataColumns, <<col_d_x>>}}

\* dicts with the method name 'mode', which the loop does not know, and with
\* the absent column d
InputConfigs ==
    { <<>>,
      << <<"mode", <<col_c_x>>>> >>,
      << <<"max", <<col_d>>>> >>,
      << <<"one_hot_encode", <<col_d>>>> >>,
      << <<"boolean", <<col_d, col_c_x>>>>, <<"mode", <<col_d>>>> >> }

\* rows of hospitalization 1 over the data columns of the table at hand
InputRows ==
    {[hospitalization_id |-> 1, event_time |-> t,
      cells |-> [col \in DfDataColumns |-> IF col \in TextColumns THEN tv ELSE nv]] :
        t \in {0, SecondsPerHour},
        tv \in {NULL, Str(<<"a", " ", "b">>)}, nv \in {NULL, NumHalf(1)}}

InitInputs ==
    /\ WideIdle
    /\ wide_df = <<>>
    /\ wide_df_columns \in ColumnChoices
    /\ printed = <<>>
    /\ aggregation_config \in InputConfigs
    /\ hourly_call = NoHourlyCall
    /\ hourly_df = NoHourly

AppendInputRow ==
    /\ hourly_df.status = "none"
    /\ Len(wide_df) < MaxWideRows
    /\ \E row \in InputRows :
          /\ FollowsLastRow(wide_df, row)
          /\ wide_df' = Append(wide_df, row)
    /\ UNCHANGED <<wide_df_columns, aggregation_config, hourly_call, hourly_df,
                   printed, wide_vars>>

NextInputs ==
    \/ AppendInputRow
    \/ ConvertWideToHourly

SpecInputs == InitInputs /\ [][NextInputs]_vars

----------------------------------------------------------------------------
(* convert_wide_to_hourly called again with the same wide table and the same *)
(* dict object, as the example notebook does                                 *)

\* a further call convert_wide_to_hourly(wide_df, aggregation_config): the dict
\* is the object the earlier calls have extended; hourly_call keeps the dict as
\* the first call received it
ConvertWideToHourlyAgain ==
    /\ hourly_call.called
    /\ aggregation_config' =
          IF InputLacksColumn(wide_df_columns.keys) THEN aggregation_config
          ELSE ExtendFirst(aggregation_config, NonAggColumns(aggregation_config))
    /\ hourly_df' = HourlyDataset(wide_df, aggregation_config)
    /\ printed' = Warnings(wide_df, aggregation_config)
    /\ UNCHANGED <<wide_df, wide_df_columns, hourly_call, wide_vars>>

NextRepeat ==
    \/ AppendWideRow
    \/ ConvertWideToHourly
    \/ ConvertWideToHourlyAgain

SpecRepeat == InitHourly /\ [][NextRepeat]_vars

----------------------------------------------------------------------------
(* Claims about convert_wide_to_hourly, checked under SpecHourly.  They are  *)
(* stated over the wide table and the dict the caller passed, with their   *)
(* own arithmetic, and read the result of the call.                        *)

HourlyOk == hourly_df.status = "ok"

\* the dict as the caller passed it
PassedConfig == hourly_call.aggregation_config

\* the columns the passed dict lists under a method
ListedUnder(config, method) ==
    UNION {{config[i][2][k] : k \in 1..Len(config[i][2])} :
             i \in {j \in 1..Len(config) : config[j][1] = method}}

\* the index of the clock hour a timestamp falls in
HourIndex(ts) == ts \div SecondsPerHour

WideIndexes == 1..Len(wide_df)

HourlyIndexes == 1..Len(hourly_df.rows)

\* the wide rows of hospitalization h
RowsOfHosp(h) == {i \in WideIndexes : wide_df[i].hospitalization_id = h}

\* the wide rows that fall in the hospitalization and clock hour of hourly row g
RowsOfHour(g) ==
    {i \in WideIndexes :
        /\ wide_df[i].hospitalization_id = hourly_df.rows[g].hospitalization_id
        /\ HourIndex(wide_df[i].event_time) * SecondsPerHour
              = hourly_df.rows[g].event_time_hour}

\* the non-null values column col takes in the hour of hourly row g
ValuesOfHour(g, col) ==
    {wide_df[i].cells[col] : i \in {j \in RowsOfHour(g) : NotNull(wide_df[j].cells[col])}}

\* the hourly rows of hospitalization h
HourlyOfHosp(h) == {g \in HourlyIndexes : hourly_df.rows[g].hospitalization_id = h}

\* C5: every hourly row has nth_hour = (event_time_hour - the earliest
\* event_time_hour of its hospitalization) / 1 hour; nth_hour is never
\* negative, and every hospitalization of the input has a row with nth_hour 0.
C5_NthHourFromFirstHour ==
    HourlyOk =>
        /\ \A g \in HourlyIndexes :
              LET row == hourly_df.rows[g]
                  first_hour == MinOf({HourIndex(wide_df[i].event_time) :
                                         i \in RowsOfHosp(row.hospitalization_id)})
              IN  /\ RowsOfHour(g) # {}
                  /\ row.nth_hour = HourIndex(row.event_time_hour) - first_hour
                  /\ row.nth_hour >= 0
        /\ \A i \in WideIndexes :
              \E g \in HourlyOfHosp(wide_df[i].hospitalization_id) :
                  hourly_df.rows[g].nth_hour = 0

\* a hospitalization whose first event is not on the hour has a row at nth_hour 1
C5_Witness ==
    /\ HourlyOk
    /\ \E g \in HourlyIndexes :
          /\ hourly_df.rows[g].nth_hour = 1
          /\ \E i \in RowsOfHosp(hourly_df.rows[g].hospitalization_id) :
                /\ wide_df[i].event_time % SecondsPerHour # 0
                /\ HourIndex(wide_df[i].event_time) + 1
                      = HourIndex(hourly_df.rows[g].event_time_hour)

\* C6 as stated: the largest nth_hour of a hospitalization is
\* floor((latest event_time - earliest event_time) / 1 hour).
C6_MaxNthHourOfElapsedTime ==
    HourlyOk =>
        \A i \in WideIndexes :
            LET h == wide_df[i].hospitalization_id
                times == {wide_df[j].event_time : j \in RowsOfHosp(h)}
            IN  MaxOf({hourly_df.rows[g].nth_hour : g \in HourlyOfHosp(h)})
                  = (MaxOf(times) - MinOf(times)) \div SecondsPerHour

\* C6 amended: the largest nth_hour of a hospitalization is the number of
\* clock hours between the hour of its earliest and the hour of its latest
\* event_time.
C6_MaxNthHourOfClockHours ==
    HourlyOk =>
        \A i \in WideIndexes :
            LET h == wide_df[i].hospitalization_id
                times == {wide_df[j].event_time : j \in RowsOfHosp(h)}
            IN  MaxOf({hourly_df.rows[g].nth_hour : g \in HourlyOfHosp(h)})
                  = HourIndex(MaxOf(times)) - HourIndex(MinOf(times))

\* two events less than an hour apart on either side of the hour: nth_hour 1
C6_Witness ==
    /\ HourlyOk
    /\ \E i \in WideIndexes :
          LET h == wide_df[i].hospitalization_id
              times == {wide_df[j].event_time : j \in RowsOfHosp(h)}
          IN  /\ MaxOf(times) - MinOf(times) < SecondsPerHour
              /\ MaxOf({hourly_df.rows[g].nth_hour : g \in HourlyOfHosp(h)}) = 1

\* C7: the result has exactly one row per (hospitalization_id, event_time_hour)
\* that occurs in the input, and its rows are ordered by (hospitalization_id,
\* nth_hour): within a hospitalization nth_hour grows from each row to the next.
C7_OneRowPerHourSorted ==
    HourlyOk =>
        /\ \A i \in WideIndexes :
              Cardinality({g \in HourlyIndexes : i \in RowsOfHour(g)}) = 1
        /\ \A g \in HourlyIndexes : RowsOfHour(g) # {}
        /\ \A g \in HourlyIndexes :
              g < Len(hourly_df.rows) =>
                 LET a == hourly_df.rows[g]
                     b == hourly_df.rows[g + 1]
                 IN  \/ a.hospitalization_id < b.hospitalization_id
                     \/ /\ a.hospitalization_id = b.hospitalization_id
                        /\ a.nth_hour < b.nth_hour

\* one hospitalization with events in two hours, and so two hourly rows
C7_Witness ==
    /\ HourlyOk
    /\ Len(wide_df) = 2
    /\ Len(hourly_df.rows) = 2
    /\ hourly_df.rows[1].hospitalization_id = hourly_df.rows[2].hospitalization_id
    /\ hourly_df.rows[1].nth_hour < hourly_df.rows[2].nth_hour

\* C8: for a column b listed under boolean, b_boolean is 1 in the rows whose
\* hour holds a non-null value of b and 0 in the others; it is never null.
C8_BooleanIffNonNull ==
    HourlyOk =>
        \A b \in ListedUnder(PassedConfig, "boolean") \cap DataColumnSet :
            LET name == b \o <<"_", "b", "o", "o", "l", "e", "a", "n">>
            IN  /\ name \in hourly_df.columns
                /\ \A g \in HourlyIndexes :
                      hourly_df.rows[g].values[name]
                        = IF ValuesOfHour(g, b) # {} THEN Num(1) ELSE Num(0)

\* one hourly row with a boolean column at 1 and another boolean column at 0
C8_Witness ==
    /\ HourlyOk
    /\ {col_c, col_c_x} \subseteq ListedUnder(PassedConfig, "boolean")
    /\ \E g \in HourlyIndexes :
          /\ hourly_df.rows[g].values[ColumnName(col_c, "boolean")] = Num(1)
          /\ hourly_df.rows[g].values[ColumnName(col_c_x, "boolean")] = Num(0)

\* C9: for a column c listed under one_hot_encode, every one-hot cell is 0 or
\* 1, and in every row the one-hot cells of c add up to the number of distinct
\* non-null values c takes in that hour (values that differ only in characters
\* outside [A-Za-z0-9_] included).
C9_OneHotRowSum ==
    HourlyOk =>
        \A c \in ListedUnder(PassedConfig, "one_hot_encode") \cap DataColumnSet :
            LET cols == {name \in hourly_df.columns :
                           \E i \in WideIndexes :
                               /\ NotNull(wide_df[i].cells[c])
                               /\ name = OneHotName(c, wide_df[i].cells[c])}
            IN  \A g \in HourlyIndexes :
                   /\ \A name \in cols :
                         hourly_df.rows[g].values[name] \in {Num(0), Num(1)}
                   /\ Cardinality({name \in cols :
                                     hourly_df.rows[g].values[name] = Num(1)})
                         = Cardinality(ValuesOfHour(g, c))

\* the first non-null value of col among the wide rows of the hour of row g
FirstValueOfHour(g, col) ==
    LET rows == {i \in RowsOfHour(g) : NotNull(wide_df[i].cells[col])}
    IN  wide_df[MinOf(rows)].cells[col]

\* C10: a column the passed dict does not name yields a column with suffix _c
\* (and none with suffix _first) that holds the first non-null value of the
\* hour; a column the caller lists under first yields a column with suffix
\* _first (and none with suffix _c).
C10_CarrySuffix ==
    HourlyOk =>
        \A col \in DataColumnSet :
            LET name_c == col \o <<"_", "c">>
                name_first == col \o <<"_", "f", "i", "r", "s", "t">>
            IN  /\ col \notin AllAggColumns(PassedConfig) =>
                      /\ name_c \in hourly_df.columns
                      /\ name_first \notin hourly_df.columns
                      /\ \A g \in HourlyIndexes :
                            ValuesOfHour(g, col) # {} =>
                               hourly_df.rows[g].values[name_c]
                                  = FirstValueOfHour(g, col)
                /\ col \in ListedUnder(PassedConfig, "first") =>
                      /\ name_first \in hourly_df.columns
                      /\ name_c \notin hourly_df.columns

----------------------------------------------------------------------------
(* Specification of create_wide_dataset with sample=True: every             *)
(* hospitalization has a location transfer and a vitals measurement, and    *)
(* the hospitalization table has fewer or more rows than the sample size    *)

\* the ids of a hospitalization table larger than the sample
LargeCohortIds == 1..(SampleSize + 1)

\* hospitalization_ids names hospitalization 1 and an id no table holds
SampleCalls ==
    [optional_tables : {{}, {"vitals"}},
     category_filters : CategoryFilterChoices,
     sample : BOOLEAN,
     hospitalization_ids : {NULL, Some({1, SampleSize + 2})},
     base_table_columns : {NULL}]

InitSample ==
    /\ \E ids \in {HospitalizationIds, LargeCohortIds} :
          /\ hospitalization = HospitalizationDf(ids)
          /\ adt = {[hospitalization_id |-> h, in_dttm |-> 0,
                     location_category |-> "icu"] : h \in ids}
          /\ vitals = {[hospitalization_id |-> h, recorded_dttm |-> 0,
                        vital_category |-> "map", vital_value |-> Num(80)] : h \in ids}
    /\ respiratory_support = {}
    /\ loaded = BaseTables \cup OptionalTables
    /\ duckdb_tables = NoTables
    /\ table_df_columns = TableColumns
    /\ running = NoRunning
    /\ med_df = NoMedication
    /\ converted_med_df = NoConversion
    /\ wide_call = NoWideCall
    /\ final_df = NoWide
    /\ HourlyIdle

CreateWideDatasetOfSample ==
    /\ final_df.status = "none"
    /\ CallCreateWideDataset(SampleCalls)
    /\ UNCHANGED <<hospitalization, table_df_columns, running, med_df, converted_med_df,
                   adt, vitals, respiratory_support, loaded,
                   hourly_vars>>

NextSample == CreateWideDatasetOfSample

SpecSample == InitSample /\ [][NextSample]_vars

----------------------------------------------------------------------------
(* Claims about create_wide_dataset with its options, checked under         *)
(* SpecOptions unless said otherwise                                        *)

\* the call returned a DataFrame: the wide table, or base_cohort on the early return
Returned == final_df.status \in {"ok", "base_cohort"}

\* the vitals rows of the cohort that carry category c
CohortVitals(c) ==
    {v \in vitals : /\ v.hospitalization_id \in final_df.required_ids
                    /\ v.vital_category = c}

\* C11: after create_wide_dataset, for every table t of optional_tables and
\* every category c of category_filters[t] the output has a column named c,
\* null on every row when no source row of t in the cohort carries c; for a
\* table named in category_filters but not in optional_tables no column is
\* added for its categories.
C11_GhostColumns ==
    (Returned /\ wide_call.category_filters # NULL) =>
        \A t \in DOMAIN wide_call.category_filters[1] :
            \A c \in wide_call.category_filters[1][t] :
                IF t \in wide_call.optional_tables
                THEN /\ c \in final_df.columns
                     /\ CohortVitals(c) = {} =>
                           \A r \in final_df.rows : IsNull(r.pivoted[c])
                ELSE c \notin final_df.columns

\* the rows of hospitalization h in the wide table
WideRowsOf(h) == {r \in final_df.rows : r.hospitalization_id = h}

\* the calendar date of a timestamp
CalendarDate(ts) == ts \div SecondsPerDay

\* C12 (checked under Spec): for every hospitalization of the wide table the
\* day_number values are exactly 1..D, D the number of distinct calendar dates
\* among its event times; two of its rows have the same day_number iff their
\* event_time is on the same date, and day_number never decreases as
\* event_time increases.
C12_DayNumberDenseRank ==
    Built =>
        \A w \in final_df.rows :
            LET rows == WideRowsOf(w.hospitalization_id)
                dates == {CalendarDate(r.event_time) : r \in rows}
            IN  /\ {r.day_number : r \in rows} = 1..Cardinality(dates)
                /\ \A r1, r2 \in rows :
                      /\ (r1.day_number = r2.day_number)
                            <=> (CalendarDate(r1.event_time) = CalendarDate(r2.event_time))
                      /\ r1.event_time <= r2.event_time
                            => r1.day_number <= r2.day_number

\* a hospitalization with a row on its first date and a later row on its
\* second date
C12_Witness ==
    /\ Built
    /\ \E r1, r2 \in final_df.rows :
          /\ r1.hospitalization_id = r2.hospitalization_id
          /\ r1.event_time < r2.event_time
          /\ r1.day_number = 1
          /\ r2.day_number = 2

\* the ids of the hospitalization table
TableIds == {h.hospitalization_id : h \in hospitalization}

\* the source rows of the cohort with a given timestamp
CohortSources(h, ts) ==
    {r \in adt : r.hospitalization_id = h /\ r.in_dttm = ts}
    \cup {r \in vitals : /\ "vitals" \in wide_call.optional_tables
                         /\ r.hospitalization_id = h /\ r.recorded_dttm = ts}

IdentityColumns(table_name) ==
    IF table_name = "patient" THEN {"patient_id"}
    ELSE IF table_name = "hospitalization" THEN {"hospitalization_id", "patient_id"}
    ELSE {"hospitalization_id"}

\* the rows of a base table that concern the cohort of the call
BaseRows(table_name) ==
    IF table_name = "patient" THEN patient
    ELSE IF table_name = "hospitalization"
    THEN {h \in hospitalization : h.hospitalization_id \in final_df.required_ids}
    ELSE {r \in adt : r.hospitalization_id \in final_df.required_ids}

\* C14: for every base table with a column subset in base_table_columns, the
\* table create_wide_dataset uses keeps all rows and exactly the existing
\* columns that are requested or are identity columns of the table; an
\* identity column is kept when the caller omits it and a requested column
\* that does not exist is dropped without aborting.  A table without a subset
\* keeps all its columns.
C14_BaseTableColumnSubset ==
    \A t \in BaseTables :
        (final_df.status # "raised" /\ (t \o "_df") \in DOMAIN duckdb_tables) =>
            LET df == duckdb_tables[t \o "_df"]
                btc == wide_call.base_table_columns
            IN  /\ df.rows = BaseRows(t)
                /\ df.columns =
                      IF btc # NULL /\ t \in DOMAIN btc[1]
                      THEN (btc[1][t] \cup IdentityColumns(t)) \cap DfColumns(t)
                      ELSE DfColumns(t)

\* adt is used with hospitalization_id, which the caller omitted, and without
\* the column that does not exist, and the call went on to return
C14_Witness ==
    /\ Returned
    /\ wide_call.base_table_columns # NULL
    /\ "adt" \in DOMAIN wide_call.base_table_columns[1]
    /\ "no_such_column" \in wide_call.base_table_columns[1]["adt"]
    /\ "hospitalization_id" \notin wide_call.base_table_columns[1]["adt"]
    /\ "adt_df" \in DOMAIN duckdb_tables
    /\ duckdb_tables["adt_df"].columns = {"hospitalization_id", "location_category"}
    /\ duckdb_tables["adt_df"].rows # {}

\* C15: create_wide_dataset aborts only when the patient or the hospitalization
\* table is missing from the loaded set; with both loaded it returns a result
\* for every combination of optional_tables, category_filters, cohort selector
\* and base_table_columns, also when the adt column subset leaves out in_dttm
\* and when a cohort hospitalization has no event timestamp.
C15_AbortsOnlyWithoutRequiredTables ==
    final_df.status = "raised" =>
        ~({"patient", "hospitalization"} \subseteq loaded)

\* C20: every table or view that create_wide_dataset registers with DuckDB is
\* no longer registered when it returns or raises, on the normal return, on
\* the early return without event timestamps and on an error.
C20_NothingLeftRegistered ==
    final_df.status # "none" => duckdb_tables = NoTables

\* the wide table at hand passes the input check of convert_wide_to_hourly
HasRequiredColumns ==
    {"event_time", "hospitalization_id", "day_number"} \subseteq wide_df_columns.keys

\* the derived columns whose names the passed dict fixes: <col>_<method> for
\* the columns listed under max, min, first, last and boolean, and <col>_c for
\* the data columns the dict does not name
ExpectedColumns ==
    UNION {{ColumnName(col, method) :
              col \in ListedUnder(PassedConfig, method) \cap DfDataColumns} :
             method \in {"max", "min", "first", "last", "boolean"}}
    \cup {ColumnName(col, "c") :
            col \in DfDataColumns \ AllAggColumns(PassedConfig)}

\* C17: convert_wide_to_hourly applied to a wide table that has the required
\* columns but zero rows returns, without raising, a table with zero rows that
\* carries the expected columns.
C17_EmptyWideTable ==
    (hourly_call.called /\ HasRequiredColumns /\ wide_df = <<>>) =>
        /\ hourly_df.status = "ok"
        /\ hourly_df.rows = <<>>
        /\ ExpectedColumns \subseteq hourly_df.columns

\* C16: convert_wide_to_hourly called on a wide table that lacks event_time,
\* hospitalization_id or day_number aborts with an error, returns no hourly
\* table, and leaves the wide table and the caller's aggregation_config as
\* they were.
C16_InputCheckAborts ==
    [][(~hourly_call.called /\ hourly_call'.called /\ ~HasRequiredColumns) =>
          /\ hourly_df'.status = "raised"
          /\ hourly_df'.rows = <<>>
          /\ hourly_df'.columns = {}
          /\ wide_df' = wide_df
          /\ wide_df_columns' = wide_df_columns
          /\ aggregation_config' = aggregation_config]_vars

\* a call on a table with rows but without one of the three columns was
\* rejected, and the dict names none of the data columns, which a call that
\* passes the check adds under 'first'
C16_Witness ==
    /\ hourly_call.called
    /\ ~HasRequiredColumns
    /\ wide_df # <<>>
    /\ hourly_df.status = "raised"
    /\ DfDataColumns \ AllAggColumns(PassedConfig) # {}
    /\ aggregation_config = PassedConfig

\* the method names the loop of lines 643-676 handles
KnownMethods ==
    {"max", "min", "mean", "median", "first", "last", "boolean", "one_hot_encode"}

\* the (method, column) items of the passed dict
PassedItems == {ConfigItems(PassedConfig)[i] : i \in 1..Len(ConfigItems(PassedConfig))}

\* C18: convert_wide_to_hourly given a dict that names an unknown method or a
\* column absent from the wide table completes without error, emits no derived
\* column for that method or that column, and prints the missing-column
\* warning at most once per column over all hourly groups.
C18_UnknownMethodOrAbsentColumn ==
    ( /\ hourly_call.called
      /\ HasRequiredColumns
      /\ wide_df # <<>>
      /\ \E item \in PassedItems :
            item[1] \notin KnownMethods \/ item[2] \notin DfDataColumns ) =>
        /\ hourly_df.status = "ok"
        /\ \A item \in PassedItems :
              item[2] \notin DfDataColumns =>
                 \A postfix \in {"max", "min", "first", "last", "boolean", "c"} :
                    ColumnName(item[2], postfix) \notin hourly_df.columns
        /\ \A name \in hourly_df.columns :
              \E col \in DfDataColumns : StartsWith(name, col \o <<"_">>)
        /\ \A item \in PassedItems :
              ( /\ item[1] \notin KnownMethods
                /\ \A other \in PassedItems :
                      other[2] = item[2] => other[1] \notin KnownMethods ) =>
                 \A name \in hourly_df.columns :
                    ~StartsWith(name, item[2] \o <<"_">>)
        /\ \A i, j \in DOMAIN printed : printed[i] = printed[j] => i = j

\* every hospitalization of the cohort has a location transfer, so that every
\* row of the expanded cohort has an event time
CohortHasEvents ==
    \A h \in CohortIds : \E r \in adt : r.hospitalization_id = h

\* C19: in any sequence of create_wide_dataset calls in one process, a call that
\* selects an optional table which is not loaded completes, and that table
\* contributes no event times and no columns (other than ghost columns) to the
\* output of that call, whatever earlier calls registered with DuckDB and
\* however they ended.
C19_NotLoadedTableContributesNothing ==
    \A t \in wide_call.optional_tables \ loaded :
        /\ CohortHasEvents => final_df.status # "raised"
        /\ final_df.status = "ok" =>
              /\ t \notin final_df.pivoted_tables
              /\ t = "vitals" => final_df.columns = {}
              /\ \A r \in final_df.rows :
                    /\ t = "vitals" => r.vitals_raw = NULL
                    /\ t = "respiratory_support" => r.respiratory_support = NULL
                    /\ \E x \in adt \cup {v \in vitals : "vitals" \in SelectedTables(wide_call)}
                           \cup {v \in respiratory_support :
                                   "respiratory_support" \in SelectedTables(wide_call)} :
                          x.hospitalization_id = r.hospitalization_id

\* the last non-null value of col among the wide rows of the hour of row g
LastValueOfHour(g, col) ==
    LET rows == {i \in RowsOfHour(g) : NotNull(wide_df[i].cells[col])}
    IN  wide_df[MaxOf(rows)].cells[col]

\* the cell the claim expects for a method: the reduction of the non-null
\* values of col in the hour of row g, null when there is none
ExpectedCell(method, g, col) ==
    LET values == ValuesOfHour(g, col)
    IN  IF values = {} THEN NULL
        ELSE CASE method = "max" ->
                    CHOOSE v \in values : \A w \in values : NumLeq(w, v)
               [] method = "min" ->
                    CHOOSE v \in values : \A w \in values : NumLeq(v, w)
               [] method = "first" -> FirstValueOfHour(g, col)
               [] method = "last" -> LastValueOfHour(g, col)

\* C24: for every hourly group and every existing column listed under max,
\* min, first or last, the derived cell is the maximum, the minimum, the first
\* or the last (in wide-table row order) of the column's non-null values over
\* the wide rows of that hospitalization and hour, and null when the group
\* holds no non-null value of the column.
C24_ReductionOfNonNullValues ==
    HourlyOk =>
        \A method \in {"max", "min", "first", "last"} :
            \A col \in ListedUnder(PassedConfig, method) \cap DataColumnSet :
                /\ ColumnName(col, method) \in hourly_df.columns
                /\ \A g \in HourlyIndexes :
                      hourly_df.rows[g].values[ColumnName(col, method)]
                        = ExpectedCell(method, g, col)

\* C30: the zero-fill step run for a one_hot_encode column c changes only the
\* columns produced by one-hot encoding c; every other derived column whose
\* name starts with "c_" (c_max, c_min, c_first or c_last when c is also listed
\* under that method, the _c carry of another wide column named c_x) keeps the
\* values and nulls it has when c is not one-hot encoded.
C30_ZeroFillFrame ==
    HourlyOk =>
        \A c \in ListedUnder(PassedConfig, "one_hot_encode") \cap DataColumnSet :
            \A g \in HourlyIndexes :
                /\ \A method \in {"max", "min", "first", "last"} :
                      c \in ListedUnder(PassedConfig, method) =>
                         hourly_df.rows[g].values[ColumnName(c, method)]
                           = ExpectedCell(method, g, c)
                /\ \A col \in DataColumnSet \ AllAggColumns(PassedConfig) :
                      StartsWith(col, c \o <<"_">>) =>
                         hourly_df.rows[g].values[ColumnName(col, "c")]
                           = ExpectedCell("first", g, col)

\* C28: in a sequence of convert_wide_to_hourly calls that pass the same
\* aggregation_config object and the same wide table, every call returns the
\* hourly table the call before it returned, the dict holds the same methods
\* and column lists after each call as before it, and a column the caller never
\* named is emitted with suffix _c in every call.
C28_RepeatedCallsAgree ==
    [][(hourly_call'.called /\ wide_df' = wide_df) =>
          /\ aggregation_config' = aggregation_config
          /\ hourly_call.called => hourly_df' = hourly_df
          /\ hourly_df'.status = "ok" =>
                \A col \in DfDataColumns \ AllAggColumns(hourly_call'.aggregation_config) :
                    ColumnName(col, "c") \in hourly_df'.columns]_vars

\* C29: whenever create_wide_dataset returns a table, the table has the
\* columns hospitalization_id, event_time and day_number, so that the input
\* check of convert_wide_to_hourly passes on it; also when no source
\* contributes an event timestamp.
C29_ReturnedTablePassesInputCheck ==
    Returned =>
        \A r \in final_df.rows :
            /\ {"hospitalization_id", "event_time", "day_number"} \subseteq DOMAIN r
            /\ ~InputLacksColumn(DOMAIN r)

\* the source rows of a cell that come first in source order, for a vitals
\* table whose rows are in ascending order of recorded_dttm
FirstSourceRows(w, c) ==
    {v \in SourceRows(w, c) :
        \A u \in SourceRows(w, c) : v.recorded_dttm <= u.recorded_dttm}

\* C25: when several rows of vitals share the hospitalization, the minute and
\* the category but carry different values, the pivoted cell holds the value of
\* the row that comes first in source order, so that the same input tables give
\* the same wide table.
C25_FirstInSourceOrderWins ==
    Built =>
        \A w \in final_df.rows : \A c \in final_df.columns :
            \A v \in FirstSourceRows(w, c) :
                ( /\ FirstSourceRows(w, c) = {v}
                  /\ \A u \in SourceRows(w, c) : NotNull(u.vital_value) ) =>
                    w.pivoted[c] = v.vital_value

----------------------------------------------------------------------------
(* Properties of create_wide_dataset on tables that lack a column, checked  *)
(* under SpecSchema                                                         *)

\* every hospitalization of the cohort has a source timestamp, so that every
\* row of the expanded cohort has an event time
CohortHasEventTimes == \A h \in CohortIds : SourceTimes(h) # {}

\* the rows of the event-time union of the call
EventTimeUnion == {<<h, ts>> : h \in CohortIds, ts \in UNION {SourceTimes(x) : x \in CohortIds}}
                  \cap UNION {{<<h, ts>> : ts \in SourceTimes(h)} : h \in CohortIds}

\* the pivot of vitals was tried, every selected table having its timestamp
\* column, and failed for a missing value column, or had no row to pivot after
\* the category filter
PivotFailedOrEmpty ==
    /\ final_df.status # "none"
    /\ "vitals" \in wide_call.optional_tables
    /\ \A t \in wide_call.optional_tables : HasTimestampColumn(table_df_columns[t])
    /\ \/ ~HasPivotColumns(table_df_columns.vitals)
       \/ PivotData("vitals", FilterToCohort(vitals, CohortIds),
                    wide_call.category_filters) = {}

\* the categories category_filters requests of the selected tables
RequestedCategories ==
    IF wide_call.category_filters = NULL THEN {}
    ELSE UNION {wide_call.category_filters[1][t] :
                  t \in DOMAIN wide_call.category_filters[1]
                        \cap wide_call.optional_tables}

\* C26: when the pivot of a selected pivotable source fails (its value or
\* category column is missing) or is empty after the category filter,
\* create_wide_dataset completes, the source adds no columns to the wide output
\* other than ghost columns, and no wide row is duplicated or added beyond the
\* rows of the event-time union.
C26_FailedPivotAddsNothing ==
    (PivotFailedOrEmpty /\ CohortHasEventTimes) =>
        /\ Built
        /\ final_df.columns \subseteq RequestedCategories
        /\ "vitals" \notin RawJoined(SelectedTables(wide_call), final_df.pivoted_tables)
        /\ \A r \in final_df.rows : r.vitals_raw = NULL
        /\ Cardinality(final_df.rows) <= Cardinality(EventTimeUnion)

\* the selected tables of the call that have no timestamp column
UnresolvedTables ==
    {t \in SelectedTables(wide_call) : ~HasTimestampColumn(table_df_columns[t])}

\* the timestamps of the rows of table t of hospitalization h
TimesOf(t, h) ==
    {r.recorded_dttm : r \in {x \in TableDf(t) : x.hospitalization_id = h}}

\* C27: when a selected optional table has none of its recognized timestamp
\* columns after the fallbacks, create_wide_dataset completes and that table
\* contributes neither event times nor any column to the wide output.
C27_UnresolvedTimestampSkipsTable ==
    (final_df.status # "none" /\ CohortHasEvents) =>
        \A t \in UnresolvedTables :
            /\ Built
            /\ t \notin RawJoined(SelectedTables(wide_call), final_df.pivoted_tables)
            /\ \A r \in final_df.rows :
                  /\ t = "vitals" => r.vitals_raw = NULL
                  /\ t = "respiratory_support" => r.respiratory_support = NULL
                  /\ r.event_time \in
                        {x.in_dttm : x \in {y \in adt : y.hospitalization_id
                                                          = r.hospitalization_id}}
                        \cup UNION {TimesOf(u, r.hospitalization_id) :
                                      u \in SelectedTables(wide_call) \ UnresolvedTables}

----------------------------------------------------------------------------
(* Properties of concurrent calls, checked under SpecConcurrent             *)

\* the tables a call can return when no other call runs in the process
AloneResults(call) ==
    LET pivot_data ==
            IF "vitals" \in SelectedTables(call)
            THEN PivotData("vitals",
                           FilterToCohort(vitals, call.hospitalization_ids[1]),
                           call.category_filters)
            ELSE {}
    IN  {WideDataset(call, {}, pivot_ok, first) :
           pivot_ok \in PivotOutcomes(pivot_data),
           first \in PivotFirstChoices(pivot_data)}

\* C21: two create_wide_dataset calls on disjoint inputs whose steps (register,
\* pivot, join, clean up) interleave in any order each return exactly the table
\* they return when run alone; neither call reads or drops a table registered
\* by the other.
C21_ConcurrentCallsIndependent ==
    \A i \in CallIds :
        LET c == running.calls[i]
        IN  /\ c.foreign = {}
            /\ c.pc \in {"cleanup", "done"} => c.final_df \in AloneResults(c.call)

----------------------------------------------------------------------------
(* convert_vasopressor_units: the unit-conversion engine of the             *)
(* continuous-medication table, as the notebook calls it.  A dose is a      *)
(* rational number <<numerator, denominator>> in lowest terms, or NULL.     *)

\* the categories whose rows are rewritten
Vasopressors ==
    {"norepinephrine", "epinephrine", "dopamine", "dobutamine", "phenylephrine",
     "vasopressin", "angiotensin_ii", "isoproterenol", "milrinone"}

\* the units the engine knows: the dose is an amount of mass, per kg of weight
\* or not, per a time base of so many minutes
UnitTable ==
    ("mcg/min" :> [mass |-> "mcg", kg |-> FALSE, minutes |-> 1])
    @@ ("mcg/hr" :> [mass |-> "mcg", kg |-> FALSE, minutes |-> 60])
    @@ ("mcg/kg/min" :> [mass |-> "mcg", kg |-> TRUE, minutes |-> 1])
    @@ ("mcg/kg/hr" :> [mass |-> "mcg", kg |-> TRUE, minutes |-> 60])
    @@ ("units/min" :> [mass |-> "units", kg |-> FALSE, minutes |-> 1])
    @@ ("units/hr" :> [mass |-> "units", kg |-> FALSE, minutes |-> 60])

RECURSIVE GCD(_, _)
GCD(a, b) == IF b = 0 THEN a ELSE GCD(b, a % b)

\* the rational n/d in lowest terms
Rat(n, d) == <<n \div GCD(n, d), d \div GCD(n, d)>>

\* dose * n / d; a null dose stays null
Scale(dose, n, d) == IF dose = NULL THEN NULL ELSE Rat(dose[1] * n, dose[2] * d)

\* the weight observations of a hospitalization
Weights(vitals_df, hospitalization_id) ==
    {v \in vitals_df : /\ v.hospitalization_id = hospitalization_id
                       /\ v.vital_category = "weight_kg"
                       /\ NotNull(v.vital_value)}

Distance(a, b) == IF a < b THEN b - a ELSE a - b

\* variant: the earliest weight observation of the hospitalization
EarliestWeight(weights, admin_dttm) ==
    CHOOSE w \in weights : \A u \in weights : w.recorded_dttm <= u.recorded_dttm

\* the weight observation closest in time to the administration, the earlier
\* one of two that are equally close
ClosestWeight(weights, admin_dttm) ==
    CHOOSE w \in weights :
        \A u \in weights :
            \/ Distance(w.recorded_dttm, admin_dttm) < Distance(u.recorded_dttm, admin_dttm)
            \/ /\ Distance(w.recorded_dttm, admin_dttm) = Distance(u.recorded_dttm, admin_dttm)
               /\ w.recorded_dttm <= u.recorded_dttm

\* the unit a vasopressin row is converted to: its fixed unit on the time base
\* of the target unit
VasopressinUnit(target_unit) ==
    IF UnitTable[target_unit].minutes = 1 THEN "units/min" ELSE "units/hr"

\* the unit a row of the category is converted to
TargetUnitOf(med_category, target_unit) ==
    IF med_category = "vasopressin" THEN VasopressinUnit(target_unit) ELSE target_unit

\* the conversion needs the patient weight: one of the units is per kg and the
\* other is not
NeedsWeight(from_unit, to_unit) == UnitTable[from_unit].kg # UnitTable[to_unit].kg

\* a row whose dose could not be converted
Nullified(row) ==
    [row EXCEPT !.med_dose = NULL, !.unit_conversion_applied = Some(FALSE)]

\* variant: a converted row keeps the unit it had
ConvertedKeepingUnit(row, med_dose, to_unit) ==
    [row EXCEPT !.med_dose = med_dose, !.unit_conversion_applied = Some(TRUE)]

\* a row with its converted dose, in the unit it was converted to
Converted(row, med_dose, to_unit) ==
    [row EXCEPT !.med_dose = med_dose, !.med_unit = to_unit,
                !.unit_conversion_applied = Some(TRUE)]

\* the conversion of one row: time base, then weight normalization
ConvertRow(row, vitals_df, target_unit) ==
    LET from_unit == row.med_unit
        to_unit == TargetUnitOf(row.med_category, target_unit)
        weights == Weights(vitals_df, row.hospitalization_id)
        weight == ClosestWeight(weights, row.admin_dttm).vital_value[2]
        per_time == Scale(row.med_dose, UnitTable[to_unit].minutes,
                          UnitTable[from_unit].minutes)
    IN  IF row.med_category \notin Vasopressors
        THEN \* not a row of the engine
             [row EXCEPT !.unit_conversion_applied = Some(FALSE)]
        ELSE IF from_unit = target_unit
        THEN \* already in the target unit: passed through
             [row EXCEPT !.unit_conversion_applied = Some(TRUE)]
        ELSE IF from_unit \notin DOMAIN UnitTable
        THEN \* unknown source unit
             Nullified(row)
        ELSE IF UnitTable[from_unit].mass # UnitTable[to_unit].mass
        THEN \* no rule from the source unit to the unit of the category
             Nullified(row)
        ELSE IF ~NeedsWeight(from_unit, to_unit)
        THEN Converted(row, per_time, to_unit)
        ELSE IF weights = {}
        THEN \* no weight for the hospitalization
             Nullified(row)
        ELSE IF UnitTable[to_unit].kg
        THEN Converted(row, Scale(per_time, 1, weight), to_unit)
        ELSE Converted(row, Scale(per_time, weight, 1), to_unit)

\* convert_vasopressor_units(target_unit, vitals_table, weight_col): the
\* rewritten medication table, row by row
ConvertVasopressorUnits(df, vitals_df, target_unit) ==
    [k \in DOMAIN df |-> ConvertRow(df[k], vitals_df, target_unit)]

----------------------------------------------------------------------------
(* Specification of the unit conversion of the notebook *)

MaxMedRows == 2

MaxWeightRows == 2

\* the conversion is applied at most twice
MaxApplications == 2

\* every administration is at 00:02:00
AdminTimes == {120}

\* a dose of 5 in a unit of its category, or in a unit the engine does not know
MedRows ==
    [hospitalization_id : HospitalizationIds, admin_dttm : AdminTimes,
     med_category : {"norepinephrine"}, med_dose : {Rat(5, 1)},
     med_unit : {"mcg/min", "mcg/hr", "mcg/kg/min", "ml/hr"},
     unit_conversion_applied : {NULL}]
    \cup
    [hospitalization_id : HospitalizationIds, admin_dttm : AdminTimes,
     med_category : {"vasopressin"}, med_dose : {Rat(5, 1)},
     med_unit : {"units/min", "units/hr"},
     unit_conversion_applied : {NULL}]

\* weights of 70 kg at 00:01:00, 80 kg at 00:01:40, 90 kg at 00:03:00
WeightAt == (60 :> 70) @@ (100 :> 80) @@ (180 :> 90)

WeightRows ==
    {[hospitalization_id |-> h, recorded_dttm |-> ts, vital_category |-> "weight_kg",
      vital_value |-> Num(WeightAt[ts])] : h \in HospitalizationIds, ts \in DOMAIN WeightAt}

TargetUnits == {"mcg/kg/min", "mcg/min"}

InitConversion ==
    /\ hospitalization = HospitalizationDf(HospitalizationIds)
    /\ adt = {}
    /\ vitals = {}
    /\ respiratory_support = {}
    /\ loaded = BaseTables \cup OptionalTables
    /\ duckdb_tables = NoTables
    /\ table_df_columns = TableColumns
    /\ running = NoRunning
    /\ med_df = NoMedication
    /\ converted_med_df = NoConversion
    /\ wide_call = NoWideCall
    /\ final_df = NoWide
    /\ HourlyIdle

ConversionUnchanged ==
    UNCHANGED <<hospitalization, adt, respiratory_support, loaded, duckdb_tables,
                table_df_columns, running, wide_call, final_df, hourly_vars>>

\* the loader adds a continuous-medication row
LoadMedication ==
    /\ converted_med_df.status = "none"
    /\ Len(med_df) < MaxMedRows
    /\ \E r \in MedRows : med_df' = Append(med_df, r)
    /\ UNCHANGED <<vitals, converted_med_df>>
    /\ ConversionUnchanged

\* the loader adds a weight observation
LoadWeight ==
    /\ converted_med_df.status = "none"
    /\ Cardinality(vitals) < MaxWeightRows
    /\ \E r \in WeightRows \ vitals : vitals' = vitals \cup {r}
    /\ UNCHANGED <<med_df, converted_med_df>>
    /\ ConversionUnchanged

\* converted_med_df = clif.medication_admin_continuous.convert_vasopressor_units(
\*     target_unit=..., vitals_table=clif.vitals, weight_col="weight")
CallConvertVasopressorUnits ==
    /\ med_df # NoMedication
    /\ converted_med_df.applications < MaxApplications
    /\ \E target_unit \in TargetUnits :
          converted_med_df' =
              [status |-> "converted", target_unit |-> target_unit,
               rows |-> ConvertVasopressorUnits(med_df, vitals, target_unit),
               applications |-> converted_med_df.applications + 1]
    /\ UNCHANGED <<med_df, vitals>>
    /\ ConversionUnchanged

\* clif.medication_admin_continuous.df = converted_med_df
UpdateMedicationDf ==
    /\ converted_med_df.status = "converted"
    /\ med_df' = converted_med_df.rows
    /\ UNCHANGED <<vitals, converted_med_df>>
    /\ ConversionUnchanged

NextConversion ==
    \/ LoadMedication
    \/ LoadWeight
    \/ CallConvertVasopressorUnits
    \/ UpdateMedicationDf

SpecConversion == InitConversion /\ [][NextConversion]_vars

----------------------------------------------------------------------------
(* Properties of the unit conversion, checked under SpecConversion *)

\* converted_med_df is the conversion of med_df as loaded, to a unit per kg
ConvertedToWeightNormalized ==
    /\ converted_med_df.status = "converted"
    /\ converted_med_df.target_unit \in {"mcg/kg/min", "mcg/kg/hr"}
    /\ \A k \in DOMAIN med_df : med_df[k].unit_conversion_applied = NULL

\* the weight of a hospitalization that the spec selects for an administration
IsClosestWeight(w, r) ==
    /\ w \in vitals
    /\ w.hospitalization_id = r.hospitalization_id
    /\ w.vital_category = "weight_kg"
    /\ \A u \in vitals :
          (u.hospitalization_id = r.hospitalization_id /\ u.vital_category = "weight_kg")
          => \/ Distance(w.recorded_dttm, r.admin_dttm)
                  < Distance(u.recorded_dttm, r.admin_dttm)
             \/ /\ Distance(w.recorded_dttm, r.admin_dttm)
                      = Distance(u.recorded_dttm, r.admin_dttm)
                /\ w.recorded_dttm <= u.recorded_dttm

HasWeight(r) ==
    \E w \in vitals : /\ w.hospitalization_id = r.hospitalization_id
                       /\ w.vital_category = "weight_kg"

\* C22 as stated: with a weight-normalized target unit, every medication row of
\* a hospitalization without a weight_kg observation gets a null dose and
\* unit_conversion_applied = false, and every row of a hospitalization with a
\* weight observation gets its dose divided by that weight.
C22_EveryRowByWeight ==
    ConvertedToWeightNormalized =>
        \A k \in DOMAIN med_df :
            LET r == med_df[k]
                c == converted_med_df.rows[k]
            IN  IF ~HasWeight(r)
                THEN c.med_dose = NULL /\ c.unit_conversion_applied = Some(FALSE)
                ELSE \E w \in vitals :
                        /\ w.hospitalization_id = r.hospitalization_id
                        /\ w.vital_category = "weight_kg"
                        /\ c.med_dose = Scale(r.med_dose, 1, w.vital_value[2])

\* the rows whose conversion to a unit per kg needs the weight: a weight-based
\* category with a dose in mcg per minute or per hour
NeedsWeightRow(r) ==
    /\ r.med_category \in Vasopressors \ {"vasopressin"}
    /\ r.med_unit \in {"mcg/min", "mcg/hr"}

\* C22: convert_vasopressor_units with the target mcg/kg/min does not abort for
\* lack of a weight: a row that needs the weight, of a hospitalization without
\* a weight_kg observation, gets a null dose and unit_conversion_applied =
\* false; a row that needs the weight, of a hospitalization with weight
\* observations, gets its dose per minute divided by the weight closest in
\* time to the administration (the earlier of two equally close ones).
C22_RowsNeedingWeight ==
    ConvertedToWeightNormalized =>
        \A k \in DOMAIN med_df :
            LET r == med_df[k]
                c == converted_med_df.rows[k]
                per_hour == IF r.med_unit = "mcg/hr" THEN 60 ELSE 1
            IN  NeedsWeightRow(r) =>
                  IF ~HasWeight(r)
                  THEN c.med_dose = NULL /\ c.unit_conversion_applied = Some(FALSE)
                  ELSE \E w \in vitals :
                          /\ IsClosestWeight(w, r)
                          /\ c.med_dose[1] * r.med_dose[2] * per_hour * w.vital_value[2]
                                = c.med_dose[2] * r.med_dose[1]
                          /\ c.med_unit = converted_med_df.target_unit
                          /\ c.unit_conversion_applied = Some(TRUE)

\* 5 mcg/min of a hospitalization without weight became null, and 5 mcg/min of
\* a hospitalization weighed 70 kg at 00:01:00 and 80 kg at 00:01:40 became
\* 5/80 mcg/kg/min
C22_Witness ==
    /\ ConvertedToWeightNormalized
    /\ \E k \in DOMAIN med_df :
          /\ NeedsWeightRow(med_df[k]) /\ ~HasWeight(med_df[k])
          /\ converted_med_df.rows[k].med_dose = NULL
    /\ \E k \in DOMAIN med_df :
          /\ med_df[k].med_unit = "mcg/min"
          /\ Cardinality({w \in vitals :
                 w.hospitalization_id = med_df[k].hospitalization_id}) = 2
          /\ converted_med_df.rows[k].med_dose = <<1, 16>>

\* C23: convert_vasopressor_units applied with a target unit equal to a row's
\* current unit leaves that row's dose unchanged and sets
\* unit_conversion_applied = true; hence applying the conversion a second time
\* with the same target, to the table the first application returned, returns
\* the same doses as the first application.
C23_SameUnitPassesThrough ==
    [][converted_med_df'.applications > converted_med_df.applications =>
          /\ \A k \in DOMAIN med_df :
                (/\ med_df[k].med_category \in Vasopressors
                 /\ med_df[k].med_unit = converted_med_df'.target_unit)
                => /\ converted_med_df'.rows[k].med_dose = med_df[k].med_dose
                   /\ converted_med_df'.rows[k].unit_conversion_applied = Some(TRUE)
          /\ (/\ converted_med_df.status = "converted"
              /\ med_df = converted_med_df.rows
              /\ converted_med_df'.target_unit = converted_med_df.target_unit)
             => \A k \in DOMAIN med_df :
                   converted_med_df'.rows[k].med_dose = converted_med_df.rows[k].med_dose
      ]_vars

\* the conversion to mcg/kg/min was applied a second time to a table whose
\* row holds 5/70 mcg/kg/min from the first application, and returned 5/70
C23_Witness ==
    /\ converted_med_df.applications = 2
    /\ converted_med_df.target_unit = "mcg/kg/min"
    /\ \E k \in DOMAIN med_df :
          /\ med_df[k].unit_conversion_applied = Some(TRUE)
          /\ med_df[k].med_unit = "mcg/kg/min"
          /\ med_df[k].med_dose = <<1, 14>>
          /\ converted_med_df.rows[k].med_dose = <<1, 14>>

=============================================================================
